---- MODULE Spec2Model ----
(***************************************************************************)
(* A model of egui-multiwin (async variant): the future aggregators of     *)
(* future_set.rs, and the window tasks and the orchestrator of             *)
(* multi_window.rs.                                                        *)
(*                                                                         *)
(* The specifications share the operators:                                 *)
(*   SpecAgg       one aggregator (First, All or Stream) driven by         *)
(*                 add_future, remove_future, completions of its           *)
(*                 operations and polls;                                   *)
(*   Spec          MultiWindow: add, run, process_pending_windows, the     *)
(*                 window tasks (close signal raced against the draw       *)
(*                 loop) and the select loop of run over the root and      *)
(*                 non-root aggregators;                                   *)
(*   SpecShutdown  Spec started with two root windows and one non-root     *)
(*                 window added, under fair polling of the future of run;  *)
(*   SpecRecon     the viewport reconciliation of redraw applied to one    *)
(*                 viewport-ID set, pass after pass;                       *)
(*   SpecBurst     Spec with an event loop that delivers redraw and close  *)
(*                 requests at any time between two polls of run;          *)
(*   SpecFault     Spec with glutin refusing to make a context current or  *)
(*                 to swap buffers;                                        *)
(*   SpecCtx       the operations of IndeterminateWindowedContext and of   *)
(*                 ContextHolder applied to one window context;            *)
(*   SpecRemove    remove_future applied to the aggregators add_future,    *)
(*                 remove_future and polls build;                          *)
(*   SpecCreate    TrackedWindowContainer::create on every list of         *)
(*                 configurations of the display;                          *)
(*   SpecStream    a FuturesHashSet stream with registrations,             *)
(*                 completions and polls;                                  *)
(*   SpecLive      Spec under fair polling of the future of run and of     *)
(*                 what a redraw cycle awaits.                             *)
(***************************************************************************)
EXTENDS Integers, Sequences, FiniteSets, TLC

\* ------------------------------------------------------------------ bounds
\* Operations ever registered in the aggregator of SpecAgg.
MaxOps == 3
\* Window requests added before run.
MaxWindows == 2
\* Viewport IDs other than ROOT that a frame may reference.
MaxVpId == 1
\* Window requests the content hook returns in one redraw cycle.
MaxNew == 1
\* Reconciliation passes over one viewport-ID set in SpecRecon.
MaxPass == 3
\* Windows, surfaces and displays a context holder of SpecCtx may refer to.
MaxIdent == 2
\* The largest width and height resize is given in SpecCtx.
MaxDim == 2
\* Redraw handlers of one window awaiting their acknowledgement in SpecBurst.
MaxBurst == 2
\* Configurations the display offers to create, and their largest
\* num_samples, in SpecCreate.
MaxConfigs == 2
MaxSamples == 2

\* ----------------------------------------------------------------- helpers
Range(f) == {f[x] : x \in DOMAIN f}

\* All orders in which the entries of a HashMap with key set S can be visited.
IterOrders(S) ==
  {o \in [1..Cardinality(S) -> S] : \A i, j \in 1..Cardinality(S) : i # j => o[i] # o[j]}

\* ------------------------------------------------- FuturesHashSetInternal
\* futures maps a handle to the operation registered under it (an operation is
\* identified by a number, which is also the result it returns when ready).
FuturesHashSetInternal_new ==
  [futures |-> <<>>, gathered_outs |-> <<>>, last_index |-> 0]

\* The loop of add_future: the first key from e upward that is not in the map.
RECURSIVE first_unused(_, _)
first_unused(futures, e) ==
  IF e \notin DOMAIN futures THEN e ELSE first_unused(futures, e + 1)

\* A slip add_future could have: take last_index + 1 without the search loop.
add_future_noloop(s, elem) ==
  LET e == s.last_index + 1
  IN [s |-> [s EXCEPT !.futures = [h \in (DOMAIN s.futures) \cup {e} |->
                                      IF h = e THEN elem ELSE s.futures[h]]],
      e |-> e]

\* add_future: e = last_index + 1, advanced while the map holds e; the
\* operation is inserted under e (HashMap::insert replaces an entry with the
\* same key) and e is returned.  last_index is not written.
add_future(s, elem) ==
  LET e == first_unused(s.futures, s.last_index + 1)
  IN [s |-> [s EXCEPT !.futures = [h \in (DOMAIN s.futures) \cup {e} |->
                                      IF h = e THEN elem ELSE s.futures[h]]],
      e |-> e]

\* A slip remove_future could have: an absent handle resets the aggregator.
remove_future_reset(s, index) ==
  IF index \in DOMAIN s.futures
    THEN [s EXCEPT !.futures = [h \in (DOMAIN s.futures) \ {index} |-> s.futures[h]]]
    ELSE [s EXCEPT !.futures = <<>>, !.gathered_outs = <<>>]

\* remove_future: HashMap::remove, which does nothing for an absent key.
remove_future(s, index) ==
  [s EXCEPT !.futures = [h \in (DOMAIN s.futures) \ {index} |-> s.futures[h]]]

\* The handles of `order` (an iteration order of the map) whose operation
\* returns Ready when polled, in iteration order.
ReadyIn(s, ready, order) ==
  SelectSeq(order, LAMBDA h : s.futures[h] \in ready)

Results(s, hs) == [i \in 1..Len(hs) |-> s.futures[hs[i]]]

\* A slip of FuturesHashSetAll::poll: the new results put in front of the
\* accumulator instead of appended.
PollAll_prepend(s, ready, order) ==
  LET rm == ReadyIn(s, ready, order)
      s2 == [s EXCEPT !.gathered_outs = Results(s, rm) \o @,
                      !.futures = [h \in (DOMAIN s.futures) \ Range(rm) |-> s.futures[h]]]
  IN [s |-> s2,
      ready |-> s2.futures = <<>>,
      out |-> IF s2.futures = <<>> THEN s2.gathered_outs ELSE <<>>]

\* A slip of FuturesHashSetAll::poll: resolve as soon as one operation is ready.
PollAll_any(s, ready, order) ==
  LET rm == ReadyIn(s, ready, order)
      s2 == [s EXCEPT !.gathered_outs = @ \o Results(s, rm),
                      !.futures = [h \in (DOMAIN s.futures) \ Range(rm) |-> s.futures[h]]]
  IN [s |-> s2,
      ready |-> s2.futures = <<>> \/ rm # <<>>,
      out |-> IF s2.futures = <<>> \/ rm # <<>> THEN s2.gathered_outs ELSE <<>>]

\* A slip FuturesHashSetAll::poll could have: the accumulator is moved out
\* when the future resolves.
PollAll_take(s, ready, order) ==
  LET rm == ReadyIn(s, ready, order)
      s2 == [s EXCEPT !.gathered_outs = @ \o Results(s, rm),
                      !.futures = [h \in (DOMAIN s.futures) \ Range(rm) |-> s.futures[h]]]
  IN [s |-> IF s2.futures = <<>> THEN [s2 EXCEPT !.gathered_outs = <<>>] ELSE s2,
      ready |-> s2.futures = <<>>,
      out |-> IF s2.futures = <<>> THEN s2.gathered_outs ELSE <<>>]

\* A slip FuturesHashSetAll::poll could have: with nothing registered the
\* future stays Pending.
PollAll_waits(s, ready, order) ==
  LET rm == ReadyIn(s, ready, order)
      s2 == [s EXCEPT !.gathered_outs = @ \o Results(s, rm),
                      !.futures = [h \in (DOMAIN s.futures) \ Range(rm) |-> s.futures[h]]]
      done == s2.futures = <<>> /\ s.futures # <<>>
  IN [s |-> s2,
      ready |-> done,
      out |-> IF done THEN s2.gathered_outs ELSE <<>>]

\* FuturesHashSetAll::poll: every registered operation is polled in the map's
\* iteration order; the results of the ready ones are appended to
\* gathered_outs and they are removed; Ready(gathered_outs.clone()) when the
\* map is then empty, Pending otherwise.
PollAll(s, ready, order) ==
  LET rm == ReadyIn(s, ready, order)
      s2 == [s EXCEPT !.gathered_outs = @ \o Results(s, rm),
                      !.futures = [h \in (DOMAIN s.futures) \ Range(rm) |-> s.futures[h]]]
  IN [s |-> s2,
      ready |-> s2.futures = <<>>,
      out |-> IF s2.futures = <<>> THEN s2.gathered_outs ELSE <<>>]

\* A slip of FuturesHashSetFirst::poll: the ready operation is removed.
PollFirst_remove(s, ready, order) ==
  LET rm == ReadyIn(s, ready, order)
  IN IF rm = <<>>
       THEN [s |-> s, ready |-> FALSE, val |-> 0, h |-> 0]
       ELSE [s |-> remove_future(s, rm[1]), ready |-> TRUE,
             val |-> s.futures[rm[1]], h |-> rm[1]]

\* FuturesHashSetFirst::poll: Pending on an empty map; otherwise the
\* operations are polled in iteration order and the first ready one's result
\* is returned.  The map is not changed.
PollFirst(s, ready, order) ==
  LET rm == ReadyIn(s, ready, order)
  IN IF rm = <<>>
       THEN [s |-> s, ready |-> FALSE, val |-> 0, h |-> 0]
       ELSE [s |-> s, ready |-> TRUE, val |-> s.futures[rm[1]], h |-> rm[1]]

\* A slip of FuturesHashSet::poll_next: no break, so every ready operation is
\* removed and only the last one's result is returned.
PollNext_nobreak(s, ready, order) ==
  LET rm == ReadyIn(s, ready, order)
  IN IF rm = <<>>
       THEN [s |-> s, ready |-> FALSE, val |-> 0, h |-> 0, poll |-> "Pending"]
       ELSE [s |-> [s EXCEPT !.futures =
                       [h \in (DOMAIN s.futures) \ Range(rm) |-> s.futures[h]]],
             ready |-> TRUE, val |-> s.futures[rm[Len(rm)]], h |-> rm[Len(rm)],
             poll |-> "ReadySome"]

\* A slip poll_next could have: a stream with nothing registered ends, as
\* most streams do (Ready(None)).
PollNext_end(s, ready, order) ==
  LET rm == ReadyIn(s, ready, order)
  IN IF s.futures = <<>>
       THEN [s |-> s, ready |-> TRUE, val |-> 0, h |-> 0, poll |-> "ReadyNone"]
       ELSE IF rm = <<>>
         THEN [s |-> s, ready |-> FALSE, val |-> 0, h |-> 0, poll |-> "Pending"]
         ELSE [s |-> [s EXCEPT !.futures =
                         [h \in (DOMAIN s.futures) \ {rm[1]} |-> s.futures[h]]],
               ready |-> TRUE, val |-> s.futures[rm[1]], h |-> rm[1],
               poll |-> "ReadySome"]

\* FuturesHashSet::poll_next: the operations are polled in iteration order up
\* to the first ready one, which is removed and returned as Ready(Some(ret));
\* Pending when none is ready (never Ready(None)).  poll is the value
\* poll_next returns.
PollNext(s, ready, order) ==
  LET rm == ReadyIn(s, ready, order)
  IN IF rm = <<>>
       THEN [s |-> s, ready |-> FALSE, val |-> 0, h |-> 0, poll |-> "Pending"]
       ELSE [s |-> remove_future(s, rm[1]), ready |-> TRUE,
             val |-> s.futures[rm[1]], h |-> rm[1], poll |-> "ReadySome"]

\* ------------------------------------------------------------------ state
VARIABLES
  agg,        \* SpecAgg: the FuturesHashSetInternal behind the aggregator
  aggKind,    \* SpecAgg: "First", "All" or "Stream", the wrapper polled
  opReady,    \* SpecAgg: operations that return Ready at their next poll
  opTaken,    \* SpecAgg: operations that have returned Ready to a poll
  nextOp,     \* SpecAgg: number of operations registered so far
  lastAdd,    \* SpecAgg: the last add_future: handle returned, handles before
  lastPoll,   \* SpecAgg: the last poll: what it saw (handles before and after,
              \*   operations ready, already taken and pending, operations
              \*   registered and completed so far) and what it returned
  yielded,    \* SpecAgg: the results poll_next has returned, in order
  completed,  \* SpecAgg: the operations in the order they became ready
  sincePoll,  \* SpecAgg: completions since the last poll
  staggered,  \* SpecAgg: no two operations became ready between two polls
  removedAny  \* SpecAgg: remove_future has removed a registered operation

aggVars == <<agg, aggKind, opReady, opTaken, nextOp, lastAdd, lastPoll,
             yielded, completed, sincePoll, staggered, removedAny>>

\* Spec: MultiWindow, its windows and the select loop of run.
VARIABLES
  pending_windows, \* MultiWindow::pending_windows, a Vec of NewWindowRequest
  nReq,            \* requests constructed so far (numbers the fresh viewport sets)
  pcRun,           \* position of run: "new", "ppw", "select", "exiting", "done",
                   \*   or "panicked" / "create_panicked" in SpecFault
  win,             \* the windows created so far, in creation order
  wc,              \* events.window_close, the aggregator of the root tasks
  oc,              \* events.non_root_windows, the aggregator of the other tasks
  sel,             \* the poll of the select loop in progress
  vset,            \* the shared viewport-ID sets, by set number
  inflight,        \* the window whose redraw handler awaits its acknowledgement
  cLock,           \* owner of the lock on the common application state (0: free)
  vsLock,          \* owner of the lock of each viewport-ID set (0: free)
  glCurrent        \* the window whose context was last made current (0: none)

mwVars == <<pending_windows, nReq, pcRun, win, wc, oc, sel, vset, inflight,
            cLock, vsLock, glCurrent>>

\* The specifications of single operations.
VARIABLES
  rc,              \* SpecRecon: the viewport-ID set, the last frame output and
                   \*   what the last reconciliation pass did
  cx,              \* SpecCtx: a window context, and the last operations on it
  cr,              \* SpecCreate: the configurations offered to create, and
                   \*   how far create has come
  rem,             \* SpecRemove: an aggregator, and the last operation on it
  st               \* SpecStream: a FuturesHashSet stream and its last poll

pureVars == <<rc, cx, cr, rem, st>>

vars == <<aggVars, mwVars, pureVars>>

NoPoll ==
  [kind |-> "none", res |-> "pending", val |-> 0, out |-> <<>>,
   before |-> {}, after |-> {}, readyBefore |-> {}, takenBefore |-> {},
   pendingBefore |-> {}, regd |-> 0, done |-> <<>>]

InitAgg ==
  /\ agg = FuturesHashSetInternal_new
  /\ aggKind \in {"First", "All", "Stream"}
  /\ opReady = {}
  /\ opTaken = {}
  /\ nextOp = 0
  /\ lastAdd = [e |-> 0, before |-> {}]
  /\ lastPoll = NoPoll
  /\ yielded = <<>>
  /\ completed = <<>>
  /\ sincePoll = 0
  /\ staggered = TRUE
  /\ removedAny = FALSE

Registered == Range(agg.futures)

\* get().add_future(op) with a fresh operation.
AggAdd ==
  /\ nextOp < MaxOps
  /\ LET r == add_future(agg, nextOp + 1)
     IN /\ agg' = r.s
        /\ lastAdd' = [e |-> r.e, before |-> DOMAIN agg.futures]
  /\ nextOp' = nextOp + 1
  /\ UNCHANGED <<aggKind, opReady, opTaken, lastPoll, yielded, completed,
                 sincePoll, staggered, removedAny, mwVars, pureVars>>

\* get().remove_future(index), with a registered or an absent handle.
AggRemove ==
  \E index \in 1..(MaxOps + 1) :
    /\ agg' = remove_future(agg, index)
    /\ removedAny' = (removedAny \/ index \in DOMAIN agg.futures)
    /\ UNCHANGED <<aggKind, opReady, opTaken, nextOp, lastAdd, lastPoll,
                   yielded, completed, sincePoll, staggered, mwVars, pureVars>>

\* A registered operation becomes ready (its next poll returns Ready).
OpComplete ==
  \E op \in Registered \ (opReady \cup opTaken) :
    /\ opReady' = opReady \cup {op}
    /\ completed' = Append(completed, op)
    /\ sincePoll' = 1
    /\ staggered' = (staggered /\ sincePoll = 0)
    /\ UNCHANGED <<agg, aggKind, opTaken, nextOp, lastAdd, lastPoll, yielded,
                   removedAny, mwVars, pureVars>>

\* One poll of the FuturesHashSetAll future.
AggPollAll ==
  /\ aggKind = "All"
  /\ \E order \in IterOrders(DOMAIN agg.futures) :
       LET r == PollAll(agg, opReady, order)
       IN /\ agg' = r.s
          /\ lastPoll' = [kind |-> "all",
                          res |-> IF r.ready THEN "ready" ELSE "pending",
                          val |-> 0, out |-> r.out,
                          before |-> DOMAIN agg.futures,
                          after |-> DOMAIN r.s.futures,
                          readyBefore |-> Registered \cap opReady,
                          takenBefore |-> Registered \cap opTaken,
                          pendingBefore |-> Registered \ (opReady \cup opTaken),
                          regd |-> nextOp, done |-> completed]
          /\ opTaken' = opTaken \cup (Registered \cap opReady)
          /\ opReady' = opReady \ Registered
  /\ sincePoll' = 0
  /\ UNCHANGED <<aggKind, nextOp, lastAdd, yielded, completed, staggered, removedAny, mwVars, pureVars>>

\* One poll of the FuturesHashSetFirst future.  An operation that has already
\* returned Ready stays in the map and is polled again by a later poll; what a
\* completed future does when polled again is not defined by the Future
\* contract, so that poll may return its result again, return Pending, or
\* panic.
AggPollFirst ==
  /\ aggKind = "First"
  /\ lastPoll.res # "panic"
  /\ \E order \in IterOrders(DOMAIN agg.futures) :
     \E again \in SUBSET (Registered \cap opTaken) :
     \E panics \in BOOLEAN :
       LET r == PollFirst(agg, opReady \cup again, order)
           hit == panics /\ (Registered \cap opTaken) # {}
       IN /\ agg' = r.s
          /\ lastPoll' = [kind |-> "first",
                          res |-> IF hit THEN "panic"
                                  ELSE IF r.ready THEN "ready" ELSE "pending",
                          val |-> IF hit THEN 0 ELSE r.val, out |-> <<>>,
                          before |-> DOMAIN agg.futures,
                          after |-> DOMAIN r.s.futures,
                          readyBefore |-> Registered \cap opReady,
                          takenBefore |-> Registered \cap opTaken,
                          pendingBefore |-> Registered \ (opReady \cup opTaken),
                          regd |-> nextOp, done |-> completed]
          /\ opTaken' = IF r.ready /\ ~hit THEN opTaken \cup {r.val} ELSE opTaken
          /\ opReady' = IF r.ready /\ ~hit THEN opReady \ {r.val} ELSE opReady
  /\ sincePoll' = 0
  /\ UNCHANGED <<aggKind, nextOp, lastAdd, yielded, completed, staggered, removedAny, mwVars, pureVars>>

\* One poll_next of the FuturesHashSet stream.
AggPollNext ==
  /\ aggKind = "Stream"
  /\ \E order \in IterOrders(DOMAIN agg.futures) :
       LET r == PollNext(agg, opReady, order)
       IN /\ agg' = r.s
          /\ lastPoll' = [kind |-> "next",
                          res |-> IF r.ready THEN "ready" ELSE "pending",
                          val |-> r.val, out |-> <<>>,
                          before |-> DOMAIN agg.futures,
                          after |-> DOMAIN r.s.futures,
                          readyBefore |-> Registered \cap opReady,
                          takenBefore |-> Registered \cap opTaken,
                          pendingBefore |-> Registered \ (opReady \cup opTaken),
                          regd |-> nextOp, done |-> completed]
          /\ yielded' = IF r.ready THEN Append(yielded, r.val) ELSE yielded
          /\ opTaken' = IF r.ready THEN opTaken \cup {r.val} ELSE opTaken
          /\ opReady' = IF r.ready THEN opReady \ {r.val} ELSE opReady
  /\ sincePoll' = 0
  /\ UNCHANGED <<aggKind, nextOp, lastAdd, completed, staggered, removedAny, mwVars, pureVars>>

NextAgg ==
  \/ AggAdd
  \/ AggRemove
  \/ OpComplete
  \/ AggPollAll
  \/ AggPollFirst
  \/ AggPollNext

\* ------------------------------------------------------------ MultiWindow
\* ViewportId::ROOT; the other viewport IDs are 1..MaxVpId.
ROOT == 0
VpIds == 0..MaxVpId

\* The capacity of the trigger and acknowledgement channels of a window task.
ChanCap == 10

\* RedrawResponse::default().
RedrawResponse_default == [quit |-> FALSE, new_windows |-> 0]

\* NewWindowRequest::new: plain window content (is_root() is `root`) and a
\* fresh, empty viewport-ID set; no viewport id, builder or callback.
NewWindowRequest_new(root, freshSet) ==
  [plain |-> TRUE, root |-> root, viewport_id |-> ROOT, has_id |-> FALSE,
   viewportset |-> freshSet, viewport_callback |-> FALSE, viewport |-> FALSE]

\* NewWindowRequest::new_viewport: no window content, the given viewport id,
\* the given (shared) viewport-ID set and the optional deferred callback.
NewWindowRequest_new_viewport(vp_id, viewportset, vpcb) ==
  [plain |-> FALSE, root |-> FALSE, viewport_id |-> vp_id, has_id |-> TRUE,
   viewportset |-> viewportset, viewport_callback |-> vpcb, viewport |-> TRUE]

\* TrackedWindowContainer::create on its successful path, with the state the
\* window task of process_pending_windows adds to it: the container
\* (PlainWindow or Viewport, context NotCurrent, no egui instance), the
\* position of the draw future, the close signal, the tokens in the trigger and
\* acknowledgement channels, the RedrawResponse of the cycle in progress, and
\* the redraw handlers of SpecBurst awaiting their acknowledgement (hw), the
\* number of times can_quit of the content was called and whether destroy of
\* the egui instance was called, and whether a swap_buffers of the window
\* has returned an error; steps lists the calls redraw has made in the
\* cycle in progress, or made in the last cycle once it is complete.
\* viewport_id is the request's id or ROOT (unwrap_or).
TrackedWindowContainer_create(req) ==
  [plain |-> req.plain, root |-> req.plain /\ req.root,
   viewportid |-> IF req.has_id THEN req.viewport_id ELSE ROOT,
   viewportset |-> req.viewportset, viewportcb |-> req.viewport_callback,
   vb |-> req.viewport,
   gl_window |-> "NotCurrent", egui |-> FALSE,
   pc |-> "start", close |-> FALSE, live |-> FALSE, trig |-> 0, ack |-> 0,
   rr |-> RedrawResponse_default, hw |-> 0,
   can_quit_calls |-> 0, destroyed |-> FALSE, swap_failed |-> FALSE,
   steps |-> <<>>]

\* The places where a window task can be suspended inside init_egui or redraw.
InitAwaits == {"init_vb"}
CycleStages == {"begin_frame", "hook", "gl_before", "draw_main", "gl_after"}

\* A slip the reconciliation could have: a request for every ID of the
\* output other than ROOT, whether the set holds it or not.
Reconcile_always(V, O, hasCb, own, rr) ==
  LET V1 == IF ~hasCb THEN V \cap O ELSE V
      quit == IF hasCb /\ own \notin V THEN TRUE ELSE rr.quit
      fresh == {id \in O : id # ROOT}
  IN [set |-> V1 \cup fresh,
      rr |-> [quit |-> quit, new_windows |-> rr.new_windows + Cardinality(fresh)]]

\* A slip the reconciliation could have: the IDs that left the output are
\* not removed from the set of a container without callback.
Reconcile_keep(V, O, hasCb, own, rr) ==
  LET quit == IF hasCb /\ own \notin V THEN TRUE ELSE rr.quit
      fresh == {id \in O : id # ROOT /\ id \notin V}
  IN [set |-> V \cup fresh,
      rr |-> [quit |-> quit, new_windows |-> rr.new_windows + Cardinality(fresh)]]

\* A slip the reconciliation could have: ROOT is not excluded from the IDs
\* that get a viewport window.
Reconcile_root(V, O, hasCb, own, rr) ==
  LET V1 == IF ~hasCb THEN V \cap O ELSE V
      quit == IF hasCb /\ own \notin V THEN TRUE ELSE rr.quit
      fresh == {id \in O : id \notin V1}
  IN [set |-> V1 \cup fresh,
      rr |-> [quit |-> quit, new_windows |-> rr.new_windows + Cardinality(fresh)]]

\* The viewport reconciliation of redraw (after end_frame), for the set V, the
\* IDs O of full_output.viewport_output, a container with or without a
\* viewport callback and with viewport id `own`, and the response rr so far:
\* without callback the IDs not in O are removed from the set, with callback
\* the quit flag is set when `own` is not in the set; then every ID of O other
\* than ROOT that is not in the set is inserted, with one new viewport window
\* request each.
Reconcile(V, O, hasCb, own, rr) ==
  LET V1 == IF ~hasCb THEN V \cap O ELSE V
      quit == IF hasCb /\ own \notin V THEN TRUE ELSE rr.quit
      fresh == {id \in O : id # ROOT /\ id \notin V1}
  IN [set |-> V1 \cup fresh,
      rr |-> [quit |-> quit, new_windows |-> rr.new_windows + Cardinality(fresh)]]

\* SpecRecon has not run a reconciliation pass.
NoRc ==
  [V |-> {}, V0 |-> {}, hasCb |-> FALSE, own |-> ROOT, O |-> {}, n |-> 0,
   prev |-> {}, syn |-> 0, same |-> FALSE, quit |-> FALSE]

\* SpecRecon: a viewport-ID set with any content, seen by a container with or
\* without a viewport callback.
InitRc ==
  \E V \in SUBSET VpIds, hasCb \in BOOLEAN, own \in VpIds :
    rc = [NoRc EXCEPT !.V = V, !.V0 = V, !.hasCb = hasCb, !.own = own]

\* Events::new: window_close is the "complete on all" aggregator and
\* non_root_windows the stream (run awaits the first as a future and polls
\* the second with StreamExt::next).
Events_new == [window_close |-> "All", non_root_windows |-> "Stream"]

IdleSel ==
  [phase |-> "idle", first |-> "wc", todo |-> {}, visited |-> <<>>,
   ready |-> {}, polling |-> 0]

\* MultiWindow::new, and the Events of run (window_close: the All aggregator
\* of the root tasks, non_root_windows: the Stream of the other tasks).
InitMw ==
  /\ pending_windows = <<>>
  /\ nReq = 0
  /\ pcRun = "new"
  /\ win = <<>>
  /\ wc = FuturesHashSetInternal_new
  /\ oc = FuturesHashSetInternal_new
  /\ sel = IdleSel
  /\ vset = <<>>
  /\ inflight = 0
  /\ cLock = 0
  /\ vsLock = <<>>
  /\ glCurrent = 0

Windows == 1..Len(win)

\* MultiWindow::add before run: a plain root or non-root window, or a viewport
\* window built with new_viewport on the set of an earlier request or on a
\* fresh one.
Add ==
  /\ pcRun = "new"
  /\ nReq < MaxWindows
  /\ \E req \in {NewWindowRequest_new(r, nReq + 1) : r \in BOOLEAN}
             \cup {NewWindowRequest_new_viewport(id, s, cb) :
                     id \in 1..MaxVpId, s \in 1..(nReq + 1), cb \in BOOLEAN} :
       pending_windows' = Append(pending_windows, req)
  /\ nReq' = nReq + 1
  /\ vset' = Append(vset, {})
  /\ vsLock' = Append(vsLock, 0)
  /\ UNCHANGED <<pcRun, win, wc, oc, sel, inflight, cLock, glCurrent, aggVars, pureVars>>

\* run up to the call of process_pending_windows.
Run ==
  /\ pcRun = "new"
  /\ pcRun' = "ppw"
  /\ UNCHANGED <<pending_windows, nReq, win, wc, oc, sel, vset, inflight, cLock,
                 vsLock, glCurrent, aggVars, pureVars>>

\* A slip process_pending_windows could have: every task is registered in
\* window_close, whatever is_root() says.
ProcessPending_allroot ==
  /\ pcRun = "ppw"
  /\ IF pending_windows # <<>>
       THEN LET req == pending_windows[Len(pending_windows)]
                twc == TrackedWindowContainer_create(req)
                w == Len(win) + 1
            IN /\ pending_windows' = SubSeq(pending_windows, 1, Len(pending_windows) - 1)
               /\ win' = Append(win, twc)
               /\ wc' = add_future(wc, w).s /\ oc' = oc
               /\ UNCHANGED <<pcRun, sel>>
       ELSE /\ pcRun' = "select"
            /\ sel' = [IdleSel EXCEPT !.phase = "loop"]
            /\ UNCHANGED <<pending_windows, win, wc, oc>>
  /\ UNCHANGED <<nReq, vset, inflight, cLock, vsLock, glCurrent, aggVars, pureVars>>

\* A slip the classification could have: is_root() is not asked, every
\* container with window data goes to window_close.
ProcessPending_plain ==
  /\ pcRun = "ppw"
  /\ IF pending_windows # <<>>
       THEN LET req == pending_windows[Len(pending_windows)]
                twc == TrackedWindowContainer_create(req)
                w == Len(win) + 1
            IN /\ pending_windows' = SubSeq(pending_windows, 1, Len(pending_windows) - 1)
               /\ win' = Append(win, twc)
               /\ IF twc.plain
                    THEN wc' = add_future(wc, w).s /\ oc' = oc
                    ELSE oc' = add_future(oc, w).s /\ wc' = wc
               /\ UNCHANGED <<pcRun, sel>>
       ELSE /\ pcRun' = "select"
            /\ sel' = [IdleSel EXCEPT !.phase = "loop"]
            /\ UNCHANGED <<pending_windows, win, wc, oc>>
  /\ UNCHANGED <<nReq, vset, inflight, cLock, vsLock, glCurrent, aggVars, pureVars>>

\* A slip the loop could have: the queue is cleared after the first request.
ProcessPending_drain ==
  /\ pcRun = "ppw"
  /\ IF pending_windows # <<>>
       THEN LET req == pending_windows[Len(pending_windows)]
                twc == TrackedWindowContainer_create(req)
                w == Len(win) + 1
            IN /\ pending_windows' = <<>>
               /\ win' = Append(win, twc)
               /\ IF twc.plain /\ twc.root
                    THEN wc' = add_future(wc, w).s /\ oc' = oc
                    ELSE oc' = add_future(oc, w).s /\ wc' = wc
               /\ UNCHANGED <<pcRun, sel>>
       ELSE /\ pcRun' = "select"
            /\ sel' = [IdleSel EXCEPT !.phase = "loop"]
            /\ UNCHANGED <<pending_windows, win, wc, oc>>
  /\ UNCHANGED <<nReq, vset, inflight, cLock, vsLock, glCurrent, aggVars, pureVars>>

\* One turn of the loop of process_pending_windows: the last request is
\* popped, its container is created, and its task is registered in
\* window_close when the container has window data whose is_root() is true,
\* in non_root_windows otherwise.  After the last turn run enters its loop.
ProcessPending ==
  /\ pcRun = "ppw"
  /\ IF pending_windows # <<>>
       THEN LET req == pending_windows[Len(pending_windows)]
                twc == TrackedWindowContainer_create(req)
                w == Len(win) + 1
            IN /\ pending_windows' = SubSeq(pending_windows, 1, Len(pending_windows) - 1)
               /\ win' = Append(win, twc)
               /\ IF twc.plain /\ twc.root
                    THEN wc' = add_future(wc, w).s /\ oc' = oc
                    ELSE oc' = add_future(oc, w).s /\ wc' = wc
               /\ UNCHANGED <<pcRun, sel>>
       ELSE /\ pcRun' = "select"
            /\ sel' = [IdleSel EXCEPT !.phase = "loop"]
            /\ UNCHANGED <<pending_windows, win, wc, oc>>
  /\ UNCHANGED <<nReq, vset, inflight, cLock, vsLock, glCurrent, aggVars, pureVars>>

\* ------------------------------------------------------ the select loop
StartPoll(which, first) ==
  [phase |-> which, first |-> first,
   todo |-> DOMAIN (IF which = "wc" THEN wc.futures ELSE oc.futures),
   visited |-> <<>>, ready |-> {}, polling |-> 0]

\* tokio::select! starts a poll of its two branches with either of them.
SelectPoll ==
  /\ pcRun = "select"
  /\ sel.phase \in {"idle", "loop"}
  /\ \E first \in {"wc", "oc"} : sel' = StartPoll(first, first)
  /\ UNCHANGED <<pending_windows, nReq, pcRun, win, wc, oc, vset, inflight, cLock,
                 vsLock, glCurrent, aggVars, pureVars>>

\* The aggregator being polled polls its next task, in the iteration order of
\* its map.  poll_next stops at the first ready task.
AggVisit ==
  /\ sel.phase \in {"wc", "oc"}
  /\ sel.polling = 0
  /\ sel.phase = "oc" => sel.ready = {}
  /\ \E h \in sel.todo :
       sel' = [sel EXCEPT !.todo = @ \ {h},
                          !.visited = Append(@, h),
                          !.polling = IF sel.phase = "wc" THEN wc.futures[h]
                                                          ELSE oc.futures[h]]
  /\ UNCHANGED <<pending_windows, nReq, pcRun, win, wc, oc, vset, inflight, cLock,
                 vsLock, glCurrent, aggVars, pureVars>>

\* A slip the select loop could have: the window_close branch does not
\* break, and run goes on selecting after the root windows have closed.
WcDone_continue ==
  /\ Events_new.window_close = "All"
  /\ sel.phase = "wc"
  /\ sel.polling = 0
  /\ sel.todo = {}
  /\ LET r == PollAll(wc, sel.ready, sel.visited)
     IN /\ wc' = r.s
        /\ pcRun' = pcRun
        /\ sel' = IF r.ready THEN IdleSel
                  ELSE IF sel.first = "wc" THEN StartPoll("oc", "wc") ELSE IdleSel
  /\ UNCHANGED <<pending_windows, nReq, win, oc, vset, inflight, cLock, vsLock,
                 glCurrent, aggVars, pureVars>>

\* The end of FuturesHashSetAll::poll in the select loop: Ready breaks the
\* loop of run; Pending lets select! poll the stream, or return Pending when
\* the stream was polled first.
WcDone ==
  /\ Events_new.window_close = "All"
  /\ sel.phase = "wc"
  /\ sel.polling = 0
  /\ sel.todo = {}
  /\ LET r == PollAll(wc, sel.ready, sel.visited)
     IN /\ wc' = r.s
        /\ IF r.ready
             THEN pcRun' = "exiting" /\ sel' = IdleSel
             ELSE /\ pcRun' = pcRun
                  /\ sel' = IF sel.first = "wc" THEN StartPoll("oc", "wc") ELSE IdleSel
  /\ UNCHANGED <<pending_windows, nReq, win, oc, vset, inflight, cLock, vsLock,
                 glCurrent, aggVars, pureVars>>

\* The end of FuturesHashSet::poll_next in the select loop: Ready(Some) ends
\* this turn of the loop and the next turn polls again; Pending lets select!
\* poll window_close, or return Pending when that was polled first.
OcDone ==
  /\ Events_new.non_root_windows = "Stream"
  /\ sel.phase = "oc"
  /\ sel.polling = 0
  /\ sel.todo = {} \/ sel.ready # {}
  /\ LET r == PollNext(oc, sel.ready, sel.visited)
     IN /\ oc' = r.s
        /\ sel' = IF r.ready THEN [IdleSel EXCEPT !.phase = "loop"]
                  ELSE IF sel.first = "oc" THEN StartPoll("wc", "oc") ELSE IdleSel
  /\ UNCHANGED <<pending_windows, nReq, pcRun, win, wc, vset, inflight, cLock,
                 vsLock, glCurrent, aggVars, pureVars>>

\* After the loop: drop(oc), set_exit and the wait for the event loop's exit.
RunExit ==
  /\ pcRun = "exiting"
  /\ pcRun' = "done"
  /\ UNCHANGED <<pending_windows, nReq, win, wc, oc, sel, vset, inflight, cLock,
                 vsLock, glCurrent, aggVars, pureVars>>

\* ------------------------------------------------------- the window task
\* IndeterminateWindowedContext::make_current / make_not_current.
make_current(ctx) ==
  CASE ctx = "PossiblyCurrent" -> "PossiblyCurrent"
    [] ctx = "NotCurrent" -> "PossiblyCurrent"
    [] OTHER -> "None"

make_not_current(ctx) ==
  CASE ctx = "PossiblyCurrent" -> "NotCurrent"
    [] ctx = "NotCurrent" -> "NotCurrent"
    [] OTHER -> "None"

Polled(w) == w \in Windows /\ sel.polling = w

Release(lock, w) == [s \in DOMAIN lock |-> IF lock[s] = w THEN 0 ELSE lock[s]]

\* try_quit on a container c, with the answer of the content's can_quit: a
\* plain window asks can_quit and destroys its egui instance on a yes, a
\* viewport window drops its instance.  Nothing in the library calls it: no
\* action of the model applies it.
try_quit(c, can_quit) ==
  IF c.plain
    THEN [c EXCEPT !.can_quit_calls = @ + 1,
                   !.destroyed = @ \/ (can_quit /\ c.egui)]
    ELSE [c EXCEPT !.egui = FALSE]

\* A slip the task could have: the frame in progress is flushed (painted,
\* swapped, the context put back) when the close signal wins the race.
TaskClose_flush ==
  \E w \in Windows :
    /\ Polled(w)
    /\ win[w].close
    /\ win[w].pc \notin {"start", "done"}
    /\ win' = [win EXCEPT ![w].pc = "done", ![w].rr = RedrawResponse_default,
                          ![w].ack = IF win[w].gl_window = "Taken" THEN @ + 1 ELSE @,
                          ![w].gl_window = IF @ = "Taken" THEN "NotCurrent" ELSE @]
    /\ sel' = [sel EXCEPT !.polling = 0, !.ready = @ \cup {w}]
    /\ cLock' = IF cLock = w THEN 0 ELSE cLock
    /\ vsLock' = Release(vsLock, w)
    /\ glCurrent' = IF glCurrent = w THEN 0 ELSE glCurrent
    /\ UNCHANGED <<pending_windows, nReq, pcRun, wc, oc, vset, inflight, aggVars, pureVars>>

\* close.or(draw) polls the close signal first: once it has fired the task
\* completes and the draw future is dropped with everything it holds.
TaskClose ==
  \E w \in Windows :
    /\ Polled(w)
    /\ win[w].close
    /\ win[w].pc \notin {"start", "done"}
    /\ win' = [win EXCEPT ![w].pc = "done", ![w].rr = RedrawResponse_default]
    /\ sel' = [sel EXCEPT !.polling = 0, !.ready = @ \cup {w}]
    /\ cLock' = IF cLock = w THEN 0 ELSE cLock
    /\ vsLock' = Release(vsLock, w)
    /\ glCurrent' = IF glCurrent = w THEN 0 ELSE glCurrent
    /\ UNCHANGED <<pending_windows, nReq, pcRun, wc, oc, vset, inflight, aggVars, pureVars>>

\* A slip init_egui could have: the context taken out of the container is
\* not put back.
TaskStart_norefill ==
  \E w \in Windows :
    /\ Polled(w)
    /\ win[w].pc = "start"
    /\ win' = [win EXCEPT ![w].live = TRUE,
                          ![w].gl_window = "Taken",
                          ![w].egui = TRUE,
                          ![w].pc = IF win[w].vb THEN "init_vb" ELSE "recv"]
    /\ glCurrent' = w
    /\ UNCHANGED <<pending_windows, nReq, pcRun, wc, oc, sel, vset, inflight, cLock,
                   vsLock, aggVars, pureVars>>

\* A slip init_egui could have: the context is put back not current.
TaskStart_release ==
  \E w \in Windows :
    /\ Polled(w)
    /\ win[w].pc = "start"
    /\ win' = [win EXCEPT ![w].live = TRUE,
                          ![w].gl_window = make_not_current(make_current(@)),
                          ![w].egui = TRUE,
                          ![w].pc = IF win[w].vb THEN "init_vb" ELSE "recv"]
    /\ glCurrent' = 0
    /\ UNCHANGED <<pending_windows, nReq, pcRun, wc, oc, sel, vset, inflight, cLock,
                   vsLock, aggVars, pureVars>>

\* The first poll of a window task: the close signal and the two handlers are
\* registered, and the draw future runs init_egui: the context is taken out
\* of the container, made current and put back, and the egui instance is
\* stored.  A container with a viewport builder then awaits its application
\* to the window.
TaskStart ==
  \E w \in Windows :
    /\ Polled(w)
    /\ win[w].pc = "start"
    /\ win' = [win EXCEPT ![w].live = TRUE,
                          ![w].gl_window = make_current(@),
                          ![w].egui = TRUE,
                          ![w].pc = IF win[w].vb THEN "init_vb" ELSE "recv"]
    /\ glCurrent' = w
    /\ UNCHANGED <<pending_windows, nReq, pcRun, wc, oc, sel, vset, inflight, cLock,
                   vsLock, aggVars, pureVars>>

\* The task returns Pending: the draw future waits for a trigger token, or
\* the future it awaits inside init_egui or redraw is not ready.
TaskYield ==
  \E w \in Windows :
    /\ Polled(w)
    /\ ~win[w].close
    /\ \/ win[w].pc \in InitAwaits \cup CycleStages
       \/ win[w].pc = "recv" /\ win[w].trig = 0
    /\ sel' = [sel EXCEPT !.polling = 0]
    /\ UNCHANGED <<pending_windows, nReq, pcRun, win, wc, oc, vset, inflight, cLock,
                   vsLock, glCurrent, aggVars, pureVars>>

\* A slip init_egui could have: the context is made current after the await
\* of check_viewport_builder instead of before it.
DrawInitVb_activate ==
  \E w \in Windows :
    /\ Polled(w)
    /\ ~win[w].close
    /\ win[w].pc = "init_vb"
    /\ win' = [win EXCEPT ![w].pc = "recv"]
    /\ glCurrent' = w
    /\ UNCHANGED <<pending_windows, nReq, pcRun, wc, oc, sel, vset, inflight, cLock,
                   vsLock, aggVars, pureVars>>

\* check_viewport_builder has finished: init_egui returns and the draw loop
\* begins.
DrawInitVb ==
  \E w \in Windows :
    /\ Polled(w)
    /\ ~win[w].close
    /\ win[w].pc = "init_vb"
    /\ win' = [win EXCEPT ![w].pc = "recv"]
    /\ UNCHANGED <<pending_windows, nReq, pcRun, wc, oc, sel, vset, inflight, cLock,
                   vsLock, glCurrent, aggVars, pureVars>>

\* A slip redraw could have: the guard of the viewport set is a temporary,
\* dropped at once instead of being held for the cycle.
DrawRecv_unguarded ==
  \E w \in Windows :
    /\ Polled(w)
    /\ ~win[w].close
    /\ win[w].pc = "recv"
    /\ win[w].trig > 0
    /\ cLock = 0
    /\ IF win[w].egui
         THEN /\ vsLock[win[w].viewportset] = 0
              /\ win' = [win EXCEPT ![w].trig = @ - 1,
                                    ![w].gl_window = "Taken",
                                    ![w].pc = "begin_frame"]
              /\ cLock' = w
              /\ vsLock' = vsLock
              /\ glCurrent' = w
         ELSE /\ win[w].ack < ChanCap
              /\ win' = [win EXCEPT ![w].trig = @ - 1,
                                    ![w].gl_window = make_not_current(make_current(@)),
                                    ![w].ack = @ + 1]
              /\ glCurrent' = 0
              /\ UNCHANGED <<cLock, vsLock>>
    /\ UNCHANGED <<pending_windows, nReq, pcRun, wc, oc, sel, vset, inflight, aggVars, pureVars>>

\* A slip the draw future could have: the draw loop runs beside init_egui
\* instead of after it, and a token starts a cycle while
\* check_viewport_builder is still awaited.
DrawRecv_early ==
  \E w \in Windows :
    /\ Polled(w)
    /\ ~win[w].close
    /\ win[w].pc \in {"init_vb", "recv"}
    /\ win[w].trig > 0
    /\ cLock = 0
    /\ IF win[w].egui
         THEN /\ vsLock[win[w].viewportset] = 0
              /\ win' = [win EXCEPT ![w].trig = @ - 1,
                                    ![w].gl_window = "Taken",
                                    ![w].pc = "begin_frame",
                                    ![w].steps = <<"make_current", "begin_frame">>]
              /\ cLock' = w
              /\ vsLock' = [vsLock EXCEPT ![win[w].viewportset] = w]
              /\ glCurrent' = w
         ELSE /\ win[w].ack < ChanCap
              /\ win' = [win EXCEPT ![w].trig = @ - 1,
                                    ![w].gl_window = make_not_current(make_current(@)),
                                    ![w].ack = @ + 1]
              /\ glCurrent' = 0
              /\ UNCHANGED <<cLock, vsLock>>
    /\ UNCHANGED <<pending_windows, nReq, pcRun, wc, oc, sel, vset, inflight, aggVars, pureVars>>

\* The draw loop receives a trigger token and redraw begins: the context is
\* taken out of the container and made current, the common state is locked,
\* and with an egui instance the viewport set is locked and begin_frame awaits
\* the input.  Without an egui instance the cycle is skipped: the context is
\* put back not current and the acknowledgement is sent.
\* The guards are std::sync::MutexGuard: when the cycle of another window,
\* suspended on this thread, holds one of them, lock() never returns (it
\* blocks the thread, or panics; std leaves open which), with the context of
\* this window already made current.
DrawRecv ==
  \E w \in Windows :
    /\ Polled(w)
    /\ ~win[w].close
    /\ win[w].pc = "recv"
    /\ win[w].trig > 0
    /\ IF cLock # 0 \/ (win[w].egui /\ vsLock[win[w].viewportset] # 0)
         THEN \E out \in {"blocked", "panicked"} :
                /\ win' = [win EXCEPT ![w].trig = @ - 1,
                                      ![w].gl_window = "Taken",
                                      ![w].pc = "blocked"]
                /\ glCurrent' = w
                /\ cLock' = IF cLock = 0 THEN w ELSE cLock
                /\ sel' = [sel EXCEPT !.phase = out, !.polling = 0]
                /\ pcRun' = IF out = "panicked" THEN "panicked" ELSE pcRun
                /\ UNCHANGED vsLock
         ELSE /\ IF win[w].egui
                   THEN /\ win' = [win EXCEPT ![w].trig = @ - 1,
                                              ![w].gl_window = "Taken",
                                              ![w].pc = "begin_frame",
                                              ![w].steps = <<"make_current", "begin_frame">>]
                        /\ cLock' = w
                        /\ vsLock' = [vsLock EXCEPT ![win[w].viewportset] = w]
                        /\ glCurrent' = w
                   ELSE /\ win[w].ack < ChanCap
                        /\ win' = [win EXCEPT ![w].trig = @ - 1,
                                              ![w].gl_window = make_not_current(make_current(@)),
                                              ![w].ack = @ + 1]
                        /\ glCurrent' = 0
                        /\ UNCHANGED <<cLock, vsLock>>
              /\ UNCHANGED <<pcRun, sel>>
    /\ UNCHANGED <<pending_windows, nReq, wc, oc, vset, inflight, aggVars, pureVars>>

\* A slip redraw could have: the framebuffer is not cleared before the UI is
\* painted.
EndFrame_noclear(w, rr, O, nextpc) ==
  LET s == win[w].viewportset
      rec == Reconcile(vset[s], O, win[w].viewportcb, win[w].viewportid, rr)
  IN /\ vset' = [vset EXCEPT ![s] = rec.set]
     /\ win' = [win EXCEPT ![w].rr = rec.rr, ![w].pc = nextpc,
                           ![w].steps = @ \o (IF win[w].viewportcb
                                                THEN <<"viewport_cb">> ELSE <<>>)
                                          \o <<"end_frame", "reconcile", "gl_before">>
                                          \o (IF nextpc = "draw_main"
                                                THEN <<"draw_main">> ELSE <<>>)]

\* end_frame, the viewport reconciliation and gl_clear, for the frame output
\* O and the response rr of the content hook (or the default one).
EndFrame(w, rr, O, nextpc) ==
  LET s == win[w].viewportset
      rec == Reconcile(vset[s], O, win[w].viewportcb, win[w].viewportid, rr)
  IN /\ vset' = [vset EXCEPT ![s] = rec.set]
     /\ win' = [win EXCEPT ![w].rr = rec.rr, ![w].pc = nextpc,
                           ![w].steps = @ \o (IF win[w].viewportcb
                                                THEN <<"viewport_cb">> ELSE <<>>)
                                          \o <<"end_frame", "reconcile", "gl_clear",
                                               "gl_before">>
                                          \o (IF nextpc = "draw_main"
                                                THEN <<"draw_main">> ELSE <<>>)]

\* begin_frame has its input.  A container with a viewport callback calls it,
\* one without callback and without window data does nothing, and both go on
\* with the default response through end_frame, the reconciliation, gl_clear
\* and gl_before (which awaits nothing without window data) to draw_main,
\* which awaits the window's size.  A plain window awaits its content hook.
DrawBeginFrame ==
  \E w \in Windows :
    /\ Polled(w)
    /\ ~win[w].close
    /\ win[w].pc = "begin_frame"
    /\ IF win[w].viewportcb \/ ~win[w].plain
         THEN \E O \in SUBSET VpIds :
                EndFrame(w, RedrawResponse_default, O, "draw_main")
         ELSE /\ win' = [win EXCEPT ![w].pc = "hook",
                                    ![w].steps = Append(@, "redraw_hook")]
              /\ UNCHANGED vset
    /\ UNCHANGED <<pending_windows, nReq, pcRun, wc, oc, sel, inflight, cLock,
                   vsLock, glCurrent, aggVars, pureVars>>

\* The content hook of a plain window returns its RedrawResponse; end_frame,
\* the reconciliation and gl_clear follow, and gl_before awaits the
\* pre-draw hook.
DrawHook ==
  \E w \in Windows :
    /\ Polled(w)
    /\ ~win[w].close
    /\ win[w].pc = "hook"
    /\ \E quit \in BOOLEAN, n \in 0..MaxNew, O \in SUBSET VpIds :
         EndFrame(w, [quit |-> quit, new_windows |-> n], O, "gl_before")
    /\ UNCHANGED <<pending_windows, nReq, pcRun, wc, oc, sel, inflight, cLock,
                   vsLock, glCurrent, aggVars, pureVars>>

\* The pre-draw hook has returned; draw_main awaits the window's size.
DrawGlBefore ==
  \E w \in Windows :
    /\ Polled(w)
    /\ ~win[w].close
    /\ win[w].pc = "gl_before"
    /\ win' = [win EXCEPT ![w].pc = "draw_main", ![w].steps = Append(@, "draw_main")]
    /\ UNCHANGED <<pending_windows, nReq, pcRun, wc, oc, sel, vset, inflight, cLock,
                   vsLock, glCurrent, aggVars, pureVars>>

\* A slip the draw loop could have: the acknowledgement is sent and the next
\* token awaited while the context and the guards of the cycle are still held.
FinishCycle_keep(w) ==
  /\ win[w].ack < ChanCap
  /\ win' = [win EXCEPT ![w].ack = @ + 1,
                        ![w].pc = "recv",
                        ![w].rr = RedrawResponse_default]
  /\ UNCHANGED <<cLock, vsLock, glCurrent>>

\* A slip the draw loop could have: the acknowledgement is sent twice for
\* one cycle.
FinishCycle_twice(w) ==
  /\ win[w].ack + 1 < ChanCap
  /\ win' = [win EXCEPT ![w].gl_window = make_not_current("PossiblyCurrent"),
                        ![w].ack = @ + 2,
                        ![w].pc = "recv",
                        ![w].rr = RedrawResponse_default,
                        ![w].steps = @ \o (IF win[w].pc = "draw_main"
                                             THEN <<"gl_after">> ELSE <<>>)
                                       \o <<"swap_buffers", "make_not_current">>]
  /\ cLock' = 0
  /\ vsLock' = Release(vsLock, w)
  /\ glCurrent' = 0

\* The rest of redraw and of the turn of the draw loop: swap_buffers (its
\* result is not looked at), the RedrawResponse is dropped with the block
\* that built it, the guards are released, the context is put back not
\* current, and the acknowledgement is sent; the loop waits for the next
\* token.
FinishCycle(w) ==
  /\ win[w].ack < ChanCap
  /\ win' = [win EXCEPT ![w].gl_window = make_not_current("PossiblyCurrent"),
                        ![w].ack = @ + 1,
                        ![w].pc = "recv",
                        ![w].rr = RedrawResponse_default,
                        ![w].steps = @ \o (IF win[w].pc = "draw_main"
                                             THEN <<"gl_after">> ELSE <<>>)
                                       \o <<"swap_buffers", "make_not_current">>]
  /\ cLock' = 0
  /\ vsLock' = Release(vsLock, w)
  /\ glCurrent' = 0

\* draw_main has the size and paints.  gl_after awaits the post-draw hook of
\* a plain window; without window data the cycle finishes.
DrawMain ==
  \E w \in Windows :
    /\ Polled(w)
    /\ ~win[w].close
    /\ win[w].pc = "draw_main"
    /\ IF win[w].plain
         THEN /\ win' = [win EXCEPT ![w].pc = "gl_after",
                                    ![w].steps = Append(@, "gl_after")]
              /\ UNCHANGED <<cLock, vsLock, glCurrent>>
         ELSE FinishCycle(w)
    /\ UNCHANGED <<pending_windows, nReq, pcRun, wc, oc, sel, vset, inflight, aggVars, pureVars>>

\* The post-draw hook has returned and the cycle finishes.
DrawGlAfter ==
  \E w \in Windows :
    /\ Polled(w)
    /\ ~win[w].close
    /\ win[w].pc = "gl_after"
    /\ FinishCycle(w)
    /\ UNCHANGED <<pending_windows, nReq, pcRun, wc, oc, sel, vset, inflight, aggVars, pureVars>>

\* ------------------------------------------------- failures of glutin
\* A panic inside a window task: nothing spawns the tasks or catches an
\* unwind, the tasks are polled by the future of run, so the panic unwinds
\* through the poll of the aggregator and through run.
Panicked == [sel EXCEPT !.phase = "panicked", !.polling = 0]

\* init_egui: glutin refuses to make the context current, and the unwrap of
\* IndeterminateWindowedContext::make_current panics.
TaskStartPanic ==
  \E w \in Windows :
    /\ Polled(w)
    /\ win[w].pc = "start"
    /\ win' = [win EXCEPT ![w].live = TRUE,
                          ![w].gl_window = "Taken",
                          ![w].pc = "panicked"]
    /\ pcRun' = "panicked"
    /\ sel' = Panicked
    /\ UNCHANGED <<pending_windows, nReq, wc, oc, vset, inflight, cLock, vsLock,
                   glCurrent, aggVars, pureVars>>

\* The start of redraw: glutin refuses to make the context current, and the
\* unwrap panics before any guard is taken.
DrawRecvPanic ==
  \E w \in Windows :
    /\ Polled(w)
    /\ ~win[w].close
    /\ win[w].pc = "recv"
    /\ win[w].trig > 0
    /\ win' = [win EXCEPT ![w].trig = @ - 1,
                          ![w].gl_window = "Taken",
                          ![w].pc = "panicked"]
    /\ pcRun' = "panicked"
    /\ sel' = Panicked
    /\ UNCHANGED <<pending_windows, nReq, wc, oc, vset, inflight, cLock, vsLock,
                   glCurrent, aggVars, pureVars>>

\* The end of a cycle whose swap_buffers returns an error: the result is
\* bound to e and never looked at, and the cycle ends as any other.
SwapFails ==
  \E w \in Windows :
    /\ Polled(w)
    /\ ~win[w].close
    /\ \/ win[w].pc = "gl_after"
       \/ win[w].pc = "draw_main" /\ ~win[w].plain
    /\ win[w].ack < ChanCap
    /\ win' = [win EXCEPT ![w].gl_window = make_not_current("PossiblyCurrent"),
                          ![w].ack = @ + 1,
                          ![w].pc = "recv",
                          ![w].rr = RedrawResponse_default,
                          ![w].swap_failed = TRUE,
                          ![w].steps = @ \o (IF win[w].pc = "draw_main"
                                               THEN <<"gl_after">> ELSE <<>>)
                                         \o <<"swap_buffers", "make_not_current">>]
    /\ cLock' = 0
    /\ vsLock' = Release(vsLock, w)
    /\ glCurrent' = 0
    /\ UNCHANGED <<pending_windows, nReq, pcRun, wc, oc, sel, vset, inflight, aggVars, pureVars>>

\* ------------------------------------------------------- the event loop
\* The event loop delivers events while the future of run is suspended, one
\* at a time: the handlers are registered with wait_direct_async, and the next
\* event is delivered when the handler of the previous one has returned.
CanDeliver(w) ==
  /\ pcRun = "select"
  /\ sel.phase = "idle"
  /\ inflight = 0
  /\ win[w].live
  /\ win[w].pc # "done"
  /\ ~win[w].close

\* A slip the redraw handler could have: it sends its token and returns
\* without waiting for the acknowledgement of the cycle.
RedrawRequested_noack ==
  \E w \in Windows :
    /\ CanDeliver(w)
    /\ win[w].trig < ChanCap
    /\ win' = [win EXCEPT ![w].trig = @ + 1]
    /\ UNCHANGED <<pending_windows, nReq, pcRun, wc, oc, sel, vset, inflight, cLock,
                   vsLock, glCurrent, aggVars, pureVars>>

\* A redraw request: the handler sends a trigger token and awaits the
\* acknowledgement.
RedrawRequested ==
  \E w \in Windows :
    /\ CanDeliver(w)
    /\ win[w].trig < ChanCap
    /\ win' = [win EXCEPT ![w].trig = @ + 1]
    /\ inflight' = w
    /\ UNCHANGED <<pending_windows, nReq, pcRun, wc, oc, sel, vset, cLock, vsLock,
                   glCurrent, aggVars, pureVars>>

\* The redraw handler receives the acknowledgement and returns.
HandlerAck ==
  \E w \in Windows :
    /\ sel.phase = "idle"
    /\ inflight = w
    /\ win[w].ack > 0
    /\ win' = [win EXCEPT ![w].ack = @ - 1]
    /\ inflight' = 0
    /\ UNCHANGED <<pending_windows, nReq, pcRun, wc, oc, sel, vset, cLock, vsLock,
                   glCurrent, aggVars, pureVars>>

\* A slip the close handler could have: it returns true as the redraw
\* handler does, the event is consumed and the close signal never fires.
CloseRequested_consumed ==
  \E w \in Windows :
    /\ CanDeliver(w)
    /\ win[w].trig < ChanCap
    /\ win' = [win EXCEPT ![w].trig = @ + 1]
    /\ UNCHANGED <<pending_windows, nReq, pcRun, wc, oc, sel, vset, inflight, cLock,
                   vsLock, glCurrent, aggVars, pureVars>>

\* A close request: the handler sends a token on the trigger channel and
\* returns, and the close signal of the task fires.
CloseRequested ==
  \E w \in Windows :
    /\ CanDeliver(w)
    /\ win[w].trig < ChanCap
    /\ win' = [win EXCEPT ![w].trig = @ + 1, ![w].close = TRUE]
    /\ UNCHANGED <<pending_windows, nReq, pcRun, wc, oc, sel, vset, inflight, cLock,
                   vsLock, glCurrent, aggVars, pureVars>>

\* The event loop under no assumption on the order of its deliveries: a
\* window event may be delivered whenever the future of run is suspended,
\* also while redraw handlers still await their acknowledgement.
CanDeliverAnytime(w) ==
  /\ pcRun = "select"
  /\ sel.phase = "idle"
  /\ win[w].live
  /\ win[w].pc # "done"
  /\ ~win[w].close

\* A redraw request delivered at any time: one more handler sends a trigger
\* token and awaits the acknowledgement.
RedrawAnytime ==
  \E w \in Windows :
    /\ CanDeliverAnytime(w)
    /\ win[w].trig < ChanCap
    /\ win[w].hw < MaxBurst
    /\ win' = [win EXCEPT ![w].trig = @ + 1, ![w].hw = @ + 1]
    /\ UNCHANGED <<pending_windows, nReq, pcRun, wc, oc, sel, vset, inflight, cLock,
                   vsLock, glCurrent, aggVars, pureVars>>

\* One of those handlers receives an acknowledgement and returns.
AnytimeAck ==
  \E w \in Windows :
    /\ sel.phase = "idle"
    /\ win[w].hw > 0
    /\ win[w].ack > 0
    /\ win' = [win EXCEPT ![w].ack = @ - 1, ![w].hw = @ - 1]
    /\ UNCHANGED <<pending_windows, nReq, pcRun, wc, oc, sel, vset, inflight, cLock,
                   vsLock, glCurrent, aggVars, pureVars>>

\* A close request delivered at any time, also in the middle of a redraw
\* cycle of the window.
CloseAnytime ==
  \E w \in Windows :
    /\ CanDeliverAnytime(w)
    /\ win[w].trig < ChanCap
    /\ win' = [win EXCEPT ![w].trig = @ + 1, ![w].close = TRUE]
    /\ UNCHANGED <<pending_windows, nReq, pcRun, wc, oc, sel, vset, inflight, cLock,
                   vsLock, glCurrent, aggVars, pureVars>>

Next ==
  \/ Add
  \/ Run
  \/ ProcessPending
  \/ SelectPoll
  \/ AggVisit
  \/ WcDone
  \/ OcDone
  \/ RunExit
  \/ TaskClose
  \/ TaskStart
  \/ TaskYield
  \/ DrawInitVb
  \/ DrawRecv
  \/ DrawBeginFrame
  \/ DrawHook
  \/ DrawGlBefore
  \/ DrawMain
  \/ DrawGlAfter
  \/ RedrawRequested
  \/ HandlerAck
  \/ CloseRequested

\* ------------------------------------------------ the window context
\* The widths and heights resize is given in SpecCtx (u32 values; the
\* clamping does no arithmetic on them).
Dims == 0..MaxDim

\* NumExt::at_least on u32.
at_least(x, lo) == IF x < lo THEN lo ELSE x

\* Option::None where a ContextHolder is expected.
NoHolder == [context |-> "None"]

\* ContextHolder<NotCurrentContext>::make_current on its Ok path: the context
\* changes type, and window, surface, display and options are moved over.
ContextHolder_make_current(h) == [h EXCEPT !.context = "PossiblyCurrent"]

\* ContextHolder<PossiblyCurrentContext>::make_not_current on its Ok path.
ContextHolder_make_not_current(h) == [h EXCEPT !.context = "NotCurrent"]

\* A slip resize could have: the size passed on as it is.
ContextHolder_resize_raw(h, size) ==
  [h EXCEPT !.surface = [width |-> size.width, height |-> size.height]]

\* ContextHolder<PossiblyCurrentContext>::resize: the surface is resized to
\* (w.at_least(1), h.at_least(1)).
ContextHolder_resize(h, size) ==
  [h EXCEPT !.surface = [width |-> at_least(size.width, 1),
                         height |-> at_least(size.height, 1)]]

\* A slip make_not_current could have: a NotCurrent value is not put back.
IndeterminateWindowedContext_make_not_current_take(x) ==
  IF x.tag = "PossiblyCurrent"
    THEN [tag |-> "NotCurrent", h |-> ContextHolder_make_not_current(x.h)]
    ELSE [tag |-> "None", h |-> NoHolder]

\* IndeterminateWindowedContext::make_current on a value with its holder:
\* PossiblyCurrent is made current again and kept, NotCurrent becomes
\* PossiblyCurrent with the holder's other fields, None stays None.
IndeterminateWindowedContext_make_current(x) ==
  [tag |-> make_current(x.tag),
   h |-> IF x.tag = "NotCurrent" THEN ContextHolder_make_current(x.h) ELSE x.h]

\* IndeterminateWindowedContext::make_not_current on a value with its holder.
IndeterminateWindowedContext_make_not_current(x) ==
  [tag |-> make_not_current(x.tag),
   h |-> IF x.tag = "PossiblyCurrent" THEN ContextHolder_make_not_current(x.h)
                                      ELSE x.h]

\* IndeterminateWindowedContext::context: the holder that has swap_buffers
\* and resize, for a PossiblyCurrent value only.
context(x) == IF x.tag = "PossiblyCurrent" THEN x.h ELSE NoHolder

\* The context values SpecCtx starts from: a holder as create builds it
\* (NotCurrent) or after an activation, or no context.
Holders ==
  [context : {"NotCurrent"}, window : 1..MaxIdent, ws : 1..MaxIdent,
   display : 1..MaxIdent, vsync : BOOLEAN,
   surface : {[width |-> 1, height |-> 1]}]

Contexts ==
  {[tag |-> "NotCurrent", h |-> h] : h \in Holders}
    \cup {[tag |-> "PossiblyCurrent", h |-> ContextHolder_make_current(h)] : h \in Holders}
    \cup {[tag |-> "None", h |-> NoHolder]}

\* SpecCtx has not applied an operation.
NoCx ==
  [x |-> [tag |-> "None", h |-> NoHolder], b |-> [tag |-> "None", h |-> NoHolder],
   op |-> "none", arg |-> [width |-> 1, height |-> 1], panicked |-> FALSE]

InitCx == \E x \in Contexts : cx = [NoCx EXCEPT !.x = x, !.b = x]

\* gl_window = gl_window.make_current(), as init_egui and redraw call it.
\* glutin may refuse to make the context current, and the unwrap panics.
CtxMakeCurrent ==
  /\ ~cx.panicked
  /\ \E ok \in BOOLEAN :
       IF ok \/ cx.x.tag = "None"
         THEN cx' = [cx EXCEPT !.x = IndeterminateWindowedContext_make_current(cx.x),
                               !.b = cx.x, !.op = "make_current"]
         ELSE cx' = [cx EXCEPT !.panicked = TRUE, !.b = cx.x, !.op = "make_current"]
  /\ UNCHANGED <<aggVars, mwVars, rc, cr, rem, st>>

\* gl_window.make_not_current(), as the end of redraw calls it.
CtxMakeNotCurrent ==
  /\ ~cx.panicked
  /\ \E ok \in BOOLEAN :
       IF ok \/ cx.x.tag # "PossiblyCurrent"
         THEN cx' = [cx EXCEPT !.x = IndeterminateWindowedContext_make_not_current(cx.x),
                               !.b = cx.x, !.op = "make_not_current"]
         ELSE cx' = [cx EXCEPT !.panicked = TRUE, !.b = cx.x, !.op = "make_not_current"]
  /\ UNCHANGED <<aggVars, mwVars, rc, cr, rem, st>>

\* make_current().make_not_current() with both calls succeeding: what a
\* redraw that draws nothing does to the context.
CtxRoundTrip ==
  /\ ~cx.panicked
  /\ cx' = [cx EXCEPT !.x = IndeterminateWindowedContext_make_not_current(
                               IndeterminateWindowedContext_make_current(cx.x)),
                       !.b = cx.x, !.op = "round_trip"]
  /\ UNCHANGED <<aggVars, mwVars, rc, cr, rem, st>>

\* context().resize(size), which exists only on the holder context returns.
CtxResize ==
  /\ ~cx.panicked
  /\ context(cx.x) # NoHolder
  /\ \E w \in Dims, h \in Dims :
       LET size == [width |-> w, height |-> h]
       IN cx' = [cx EXCEPT !.x.h = ContextHolder_resize(context(cx.x), size),
                           !.b = cx.x, !.op = "resize", !.arg = size]
  /\ UNCHANGED <<aggVars, mwVars, rc, cr, rem, st>>

NextCtx ==
  \/ CtxMakeCurrent
  \/ CtxMakeNotCurrent
  \/ CtxRoundTrip
  \/ CtxResize

\* ------------------------------------------------ creating the context
\* A configuration find_configs offers: its num_samples, and whether
\* create_window_surface and create_context succeed with it.
Configs == [samples : 0..MaxSamples, surface_ok : BOOLEAN, context_ok : BOOLEAN]

\* SpecCreate has not been given configurations.
NoCr == [configs |-> <<>>, sorted |-> <<>>, result |-> "none", used |-> 0]

\* configs.sort_by(num_samples): a stable sort, ascending.
sort_by(configs) ==
  LET n == Len(configs)
      p == CHOOSE o \in IterOrders(1..n) :
             \A i, j \in 1..n :
               i < j => \/ configs[o[i]].samples < configs[o[j]].samples
                        \/ /\ configs[o[i]].samples = configs[o[j]].samples
                           /\ o[i] < o[j]
  IN [i \in 1..n |-> configs[p[i]]]

\* The loop of create over the sorted configurations from position i: a
\* configuration whose surface cannot be created is passed over; on the first
\* whose surface is created the context is created and unwrapped, which
\* panics when glutin refuses; after the last configuration create panics
\* with "No window created".
RECURSIVE create_loop(_, _)
create_loop(sorted, i) ==
  IF i > Len(sorted)
    THEN [result |-> "panic_no_window", used |-> 0]
    ELSE IF ~sorted[i].surface_ok
      THEN create_loop(sorted, i + 1)
      ELSE IF sorted[i].context_ok
        THEN [result |-> "ok", used |-> i]
        ELSE [result |-> "panic_unwrap", used |-> i]

InitCr ==
  \E n \in 0..MaxConfigs :
    \E configs \in [1..n -> Configs] : cr = [NoCr EXCEPT !.configs = configs]

\* TrackedWindowContainer::create with a display that offers cr.configs.
Create ==
  /\ cr.result = "none"
  /\ LET sorted == sort_by(cr.configs)
         r == create_loop(sorted, 1)
     IN cr' = [cr EXCEPT !.sorted = sorted, !.result = r.result, !.used = r.used]
  /\ UNCHANGED <<aggVars, mwVars, rc, cx, rem, st>>

NextCreate == Create

\* A turn of the loop of process_pending_windows in which no configuration
\* of the display gives a surface: create reaches panic!("No window
\* created") after the request was popped, and the panic unwinds through
\* process_pending_windows and run.
ProcessPendingPanic ==
  /\ pcRun = "ppw"
  /\ pending_windows # <<>>
  /\ \E n \in 0..MaxConfigs :
       \E configs \in [1..n -> Configs] :
         create_loop(sort_by(configs), 1).result = "panic_no_window"
  /\ pending_windows' = SubSeq(pending_windows, 1, Len(pending_windows) - 1)
  /\ pcRun' = "create_panicked"
  /\ UNCHANGED <<nReq, win, wc, oc, sel, vset, inflight, cLock, vsLock, glCurrent,
                 aggVars, pureVars>>

\* ------------------------------------------ remove_future by itself
\* SpecRemove: an aggregator (s), what it was before the last operation (b),
\* the operation, the handle given to remove_future and the number of
\* operations registered so far.
NoRem ==
  [s |-> FuturesHashSetInternal_new, b |-> FuturesHashSetInternal_new,
   op |-> "none", index |-> 0, n |-> 0]

\* get().add_future(elem).
RemAdd ==
  /\ rem.n < MaxOps
  /\ rem' = [s |-> add_future(rem.s, rem.n + 1).s, b |-> rem.s, op |-> "add",
             index |-> 0, n |-> rem.n + 1]
  /\ UNCHANGED <<aggVars, mwVars, rc, cx, cr, st>>

\* A poll of FuturesHashSetAll with some of the registered operations ready:
\* their results go to the accumulator.
RemPoll ==
  /\ rem.s.futures # <<>>
  /\ \E ready \in SUBSET Range(rem.s.futures) :
       \E order \in IterOrders(DOMAIN rem.s.futures) :
         rem' = [rem EXCEPT !.s = PollAll(rem.s, ready, order).s, !.b = rem.s,
                            !.op = "poll", !.index = 0]
  /\ UNCHANGED <<aggVars, mwVars, rc, cx, cr, st>>

\* get().remove_future(index), with a registered or an absent handle.
RemRemove ==
  /\ \E index \in 1..(MaxOps + 1) :
       rem' = [rem EXCEPT !.s = remove_future(rem.s, index), !.b = rem.s,
                          !.op = "remove", !.index = index]
  /\ UNCHANGED <<aggVars, mwVars, rc, cx, cr, st>>

NextRemove ==
  \/ RemAdd
  \/ RemPoll
  \/ RemRemove

\* ------------------------------------------------ the stream by itself
\* SpecStream: the aggregator behind a FuturesHashSet (s), the registered
\* operations that are ready, the number of operations registered so far,
\* and the last poll_next: the handles and the ready operations it found,
\* what it returned (poll, val), and the number of operations that had been
\* registered when a poll last found the map empty (empty_at, -1: never).
NoSt ==
  [s |-> FuturesHashSetInternal_new, ready |-> {}, n |-> 0, op |-> "none",
   before |-> {}, ready_before |-> {}, poll |-> "none", val |-> 0, empty_at |-> -1]

\* get().add_future(elem).
StAdd ==
  /\ st.n < MaxOps
  /\ st' = [st EXCEPT !.s = add_future(st.s, st.n + 1).s, !.n = @ + 1, !.op = "add"]
  /\ UNCHANGED <<aggVars, mwVars, rc, cx, cr, rem>>

\* A registered operation becomes ready.
StComplete ==
  /\ \E o \in Range(st.s.futures) \ st.ready :
       st' = [st EXCEPT !.ready = @ \cup {o}, !.op = "complete"]
  /\ UNCHANGED <<aggVars, mwVars, rc, cx, cr, rem>>

\* StreamExt::next(&mut stream) polled once.
StPoll ==
  /\ \E order \in IterOrders(DOMAIN st.s.futures) :
       LET r == PollNext(st.s, st.ready, order)
       IN st' = [st EXCEPT !.s = r.s,
                           !.ready = @ \ {r.val},
                           !.op = "poll",
                           !.before = DOMAIN st.s.futures,
                           !.ready_before = st.ready,
                           !.poll = r.poll,
                           !.val = r.val,
                           !.empty_at = IF st.s.futures = <<>> THEN st.n ELSE @]
  /\ UNCHANGED <<aggVars, mwVars, rc, cx, cr, rem>>

NextStream ==
  \/ StAdd
  \/ StComplete
  \/ StPoll

\* ------------------------------------------- the reconciliation by itself
\* One pass of the reconciliation of redraw over the set, for the frame output
\* O and the response rr of the content hook: what the pass inserted and
\* removed, how many requests it synthesized, and whether O is the output of
\* the pass before.
ReconPass ==
  /\ rc.n < MaxPass
  /\ \E O \in SUBSET VpIds, quit \in BOOLEAN, n \in 0..MaxNew :
       LET rr == [quit |-> quit, new_windows |-> n]
           rec == Reconcile(rc.V, O, rc.hasCb, rc.own, rr)
       IN rc' = [rc EXCEPT !.V = rec.set, !.prev = rc.V, !.O = O,
                           !.n = @ + 1,
                           !.syn = rec.rr.new_windows - rr.new_windows,
                           !.same = (rc.n > 0 /\ O = rc.O),
                           !.quit = rec.rr.quit]
  /\ UNCHANGED <<aggVars, mwVars, cx, cr, rem, st>>

NextRecon == ReconPass

\* SpecAgg and SpecRecon keep MultiWindow as constructed; Spec keeps the
\* aggregator of SpecAgg and the set of SpecRecon as constructed.
InitAggOnly == InitAgg /\ InitMw /\ rc = NoRc /\ cx = NoCx /\ cr = NoCr /\ rem = NoRem /\ st = NoSt

Init == InitAgg /\ aggKind = "All" /\ InitMw /\ rc = NoRc /\ cx = NoCx /\ cr = NoCr /\ rem = NoRem /\ st = NoSt

InitRecon == InitAgg /\ aggKind = "All" /\ InitMw /\ InitRc /\ cx = NoCx /\ cr = NoCr /\ rem = NoRem /\ st = NoSt

InitRemove ==
  InitAgg /\ aggKind = "All" /\ InitMw /\ rc = NoRc /\ cx = NoCx /\ cr = NoCr /\ rem = NoRem /\ st = NoSt

InitCreate ==
  InitAgg /\ aggKind = "All" /\ InitMw /\ rc = NoRc /\ cx = NoCx /\ InitCr /\ rem = NoRem /\ st = NoSt

InitStream ==
  InitAgg /\ aggKind = "Stream" /\ InitMw /\ rc = NoRc /\ cx = NoCx /\ cr = NoCr
    /\ rem = NoRem /\ st = NoSt

InitCtx == InitAgg /\ aggKind = "All" /\ InitMw /\ rc = NoRc /\ InitCx /\ cr = NoCr /\ rem = NoRem /\ st = NoSt

Spec == Init /\ [][Next]_vars

SpecAgg == InitAggOnly /\ [][NextAgg]_vars

SpecRecon == InitRecon /\ [][NextRecon]_vars

SpecCtx == InitCtx /\ [][NextCtx]_vars

\* create, on every list of configurations of the display.
SpecCreate == InitCreate /\ [][NextCreate]_vars

\* A FuturesHashSet stream with registrations, completions and polls.
SpecStream == InitStream /\ [][NextStream]_vars

\* remove_future, on the aggregators add_future, remove_future and the polls
\* of FuturesHashSetAll build.
SpecRemove == InitRemove /\ [][NextRemove]_vars

\* Spec with glutin refusing to make a context current or to swap buffers.
NextFault ==
  \/ Next
  \/ TaskStartPanic
  \/ DrawRecvPanic
  \/ SwapFails
  \/ ProcessPendingPanic

SpecFault == Init /\ [][NextFault]_vars

\* Spec with the event loop delivering at any time.
NextBurst ==
  \/ Add
  \/ Run
  \/ ProcessPending
  \/ SelectPoll
  \/ AggVisit
  \/ WcDone
  \/ OcDone
  \/ RunExit
  \/ TaskClose
  \/ TaskStart
  \/ TaskYield
  \/ DrawInitVb
  \/ DrawRecv
  \/ DrawBeginFrame
  \/ DrawHook
  \/ DrawGlBefore
  \/ DrawMain
  \/ DrawGlAfter
  \/ RedrawAnytime
  \/ AnytimeAck
  \/ CloseAnytime

SpecBurst == Init /\ [][NextBurst]_vars

\* The shutdown scenario: two root windows and one non-root window have been
\* added (in any order) before run.
InitShutdown ==
  /\ InitAgg /\ aggKind = "All"
  /\ pending_windows \in
       {<<NewWindowRequest_new(a, 1), NewWindowRequest_new(b, 2),
          NewWindowRequest_new(c, 3)>> :
          <<a, b, c>> \in {<<TRUE, TRUE, FALSE>>, <<TRUE, FALSE, TRUE>>,
                           <<FALSE, TRUE, TRUE>>}}
  /\ nReq = Len(pending_windows)
  /\ pcRun = "new"
  /\ win = <<>>
  /\ wc = FuturesHashSetInternal_new
  /\ oc = FuturesHashSetInternal_new
  /\ sel = IdleSel
  /\ vset = [s \in 1..nReq |-> {}]
  /\ inflight = 0
  /\ cLock = 0
  /\ vsLock = [s \in 1..nReq |-> 0]
  /\ glCurrent = 0
  /\ rc = NoRc /\ cx = NoCx /\ cr = NoCr /\ rem = NoRem /\ st = NoSt

\* The steps the thread of the event loop runs inside one poll of the future
\* of run.
PollStep ==
  \/ SelectPoll
  \/ AggVisit
  \/ WcDone
  \/ OcDone
  \/ TaskClose
  \/ TaskStart
  \/ TaskYield
  \/ DrawRecv
  \/ DrawBeginFrame
  \/ DrawHook
  \/ DrawGlBefore
  \/ DrawMain
  \/ DrawGlAfter

NextShutdown ==
  \/ Run
  \/ ProcessPending
  \/ RunExit
  \/ PollStep
  \/ RedrawRequested
  \/ HandlerAck
  \/ CloseRequested

\* Fair polling: the future of run is polled again and again, and a poll
\* that has begun runs on.
SpecShutdown ==
  /\ InitShutdown
  /\ [][NextShutdown]_vars
  /\ WF_vars(Run) /\ WF_vars(ProcessPending) /\ WF_vars(RunExit)
  /\ WF_vars(PollStep)

\* Spec under fair scheduling: the future of run is polled again and again
\* and a poll that has begun runs on (the steps of PollStep and the end of
\* check_viewport_builder), and what a redraw cycle awaits (the input, the
\* hooks of the content, the size of the window) is ready at some poll.
SpecLive ==
  /\ Init
  /\ [][Next]_vars
  /\ WF_vars(PollStep \/ DrawInitVb)
  /\ SF_vars(DrawBeginFrame) /\ SF_vars(DrawHook) /\ SF_vars(DrawGlBefore)
  /\ SF_vars(DrawMain) /\ SF_vars(DrawGlAfter)

\* ================================================================ claims
\* --------------------------------------------------------------- SpecAgg
\* C3: the handle add_future returns differs from the handle of every
\* operation registered at that moment, whatever adds, removals and polls
\* came before, so the insertion displaces no registered operation and no
\* two registered operations share a handle.
C3_HandleFresh ==
  lastAdd.e \notin lastAdd.before

\* C3 witness: add_future returned handle 1 while handle 2 was registered
\* (1 had been removed): a handle is reused, and it is not a registered one.
C3_Witness ==
  /\ lastAdd.e = 1
  /\ lastAdd.before = {2}

\* C4: a poll of the All future returns Pending exactly while a registered
\* operation is pending; when the operations became ready at different poll
\* turns and none was removed by hand, the list it resolves with holds one
\* result per operation registered so far, in the order of completion.
C4_AllCompleteness ==
  lastPoll.kind = "all" =>
    /\ (lastPoll.res = "ready") = (lastPoll.pendingBefore = {})
    /\ (lastPoll.res = "ready" /\ staggered /\ ~removedAny) =>
         /\ lastPoll.out = lastPoll.done
         /\ Len(lastPoll.out) = lastPoll.regd

\* C4 witness: three operations completed at three different poll turns, in
\* an order that is not the order of registration, and the All future
\* resolved with that order.
C4_Witness ==
  /\ lastPoll.kind = "all"
  /\ lastPoll.res = "ready"
  /\ staggered
  /\ ~removedAny
  /\ lastPoll.out = <<3, 1, 2>>

\* C5: a poll of the First future never changes the set of registered
\* handles; with more than one operation registered, exactly one of them
\* ready and none resolved before, the poll resolves with the result of the
\* ready one.
C5_FirstShortCircuit ==
  lastPoll.kind = "first" =>
    /\ lastPoll.after = lastPoll.before
    /\ (/\ Cardinality(lastPoll.before) > 1
        /\ Cardinality(lastPoll.readyBefore) = 1
        /\ lastPoll.takenBefore = {}) =>
         /\ lastPoll.res = "ready"
         /\ lastPoll.val \in lastPoll.readyBefore

\* C5 witness: three operations registered, one of them ready: the poll
\* resolved with it and all three handles are still registered.
C5_Witness ==
  /\ lastPoll.kind = "first"
  /\ lastPoll.res = "ready"
  /\ lastPoll.readyBefore = {2}
  /\ lastPoll.takenBefore = {}
  /\ Cardinality(lastPoll.before) = 3
  /\ lastPoll.after = lastPoll.before

\* C6: the stream yields no result twice and loses none (without removals
\* by hand every operation registered so far is either yielded or still
\* registered); a poll_next yields exactly when an operation is ready, and
\* then removes that one operation and no other.
C6_StreamPacing ==
  /\ \A i, j \in 1..Len(yielded) : i # j => yielded[i] # yielded[j]
  /\ (aggKind = "Stream" /\ ~removedAny) =>
       /\ Range(yielded) \cup Registered = 1..nextOp
       /\ Range(yielded) \cap Registered = {}
  /\ lastPoll.kind = "next" =>
       /\ (lastPoll.res = "ready") = (lastPoll.readyBefore # {})
       /\ lastPoll.after \subseteq lastPoll.before
       /\ lastPoll.res = "ready" =>
            /\ lastPoll.val \in lastPoll.readyBefore
            /\ Cardinality(lastPoll.before \ lastPoll.after) = 1
       /\ lastPoll.res = "pending" => lastPoll.after = lastPoll.before

\* C6 witness: two operations were ready in the same turn, and poll_next
\* yielded one and left the other registered.
C6_Witness ==
  /\ lastPoll.kind = "next"
  /\ lastPoll.res = "ready"
  /\ Cardinality(lastPoll.readyBefore) = 2
  /\ Cardinality(lastPoll.after) = Cardinality(lastPoll.before) - 1

\* ------------------------------------------------------------------ Spec
\* C1: run is past its wait loop only when every window task registered in
\* window_close (the tasks of the root windows) has completed; completions of
\* the other tasks, which poll_next only removes from non_root_windows, never
\* take run out of the loop while a root task is pending.
C1_RunWaitsForRoots ==
  pcRun \in {"exiting", "done"} =>
    /\ wc.futures = <<>>
    /\ \A w \in Windows : win[w].root => win[w].pc = "done"

\* C1 witness: run has left the loop with its root window's task completed
\* while a non-root window's task is still pending.
C1_Witness ==
  /\ pcRun = "exiting"
  /\ \E r, n \in Windows :
       /\ win[r].root /\ win[r].pc = "done"
       /\ ~win[n].root /\ win[n].pc \notin {"start", "done"}

\* A redraw cycle of window w ends in this step with the draw loop going on
\* to wait for the next trigger token.
CycleLoopsOn(w) ==
  /\ win[w].pc \in CycleStages
  /\ win'[w].pc = "recv"

\* C7 (as the specification states it): a redraw cycle whose response has
\* the quit flag set ends with the window's task completed, never with the
\* draw loop waiting for another trigger.
C7_QuitEndsLoop ==
  [][\A w \in Windows :
       (win[w].pc \in CycleStages /\ win[w].rr.quit /\ win'[w].pc \notin CycleStages)
         => win'[w].pc = "done"]_vars

\* C8 (as the specification states it): when a redraw cycle ends, the window
\* requests of its response have been appended to pending_windows.
C8_RequestsEnqueued ==
  [][\A w \in Windows :
       CycleLoopsOn(w) =>
         Len(pending_windows') = Len(pending_windows) + win[w].rr.new_windows]_vars

\* C9 (as the specification states it): a window with a viewport callback
\* whose redraw cycle found its own viewport ID absent from the shared set
\* (the only way the response of such a window gets its quit flag) does not
\* go on to wait for another trigger: its draw loop ends with that cycle.
C9_ViewportDropped ==
  [][\A w \in Windows :
       (win[w].viewportcb /\ win[w].rr.quit) => ~CycleLoopsOn(w)]_vars

\* ------------------------------------------------------------- SpecRecon
\* C10: a reconciliation pass whose frame output is the output of the pass
\* before leaves the viewport-ID set as it was and synthesizes no window
\* request, with and without a viewport callback.
C10_ReconcileIdempotent ==
  rc.same => (rc.V = rc.prev /\ rc.syn = 0)

\* C10 witness: a first pass changed the set, and a second pass with the
\* same output ran on the result.
C10_Witness ==
  /\ rc.same
  /\ rc.n = 2
  /\ rc.V # rc.V0

\* ---------------------------------------------------------- SpecShutdown
\* The close signal of every root window has fired.
RootsClosed ==
  /\ pcRun = "select"
  /\ \A w \in Windows : win[w].root => win[w].close

\* C2: with two root windows and one non-root window, once the close signal
\* of both root windows has fired run leaves its loop, whether or not the
\* non-root window's task ever completes.
C2_ShutdownResolves ==
  RootsClosed ~> (pcRun \in {"exiting", "done"})

\* C2 witness: run has left its loop after both root windows were closed,
\* and the non-root window was never closed: its task is pending.
C2_Witness ==
  /\ pcRun = "exiting"
  /\ Cardinality({w \in Windows : win[w].root /\ win[w].close}) = 2
  /\ \E n \in Windows :
       ~win[n].root /\ ~win[n].close /\ win[n].pc \notin {"start", "done"}


\* C11: the redraw cycles of one window never overlap, whatever the number
\* and the timing of the redraw signals: while a cycle is in progress the
\* window holds its context (taken out of the container) and the guards of
\* the common state and of its viewport set, and while the draw loop waits
\* for the next token the context is back in the container and no guard is
\* held; a step that begins a cycle starts from the waiting loop and
\* consumes one token.
C11_CyclesSequential ==
  /\ [](\A w \in Windows :
         /\ win[w].pc \in CycleStages =>
              /\ win[w].gl_window = "Taken"
              /\ cLock = w
              /\ vsLock[win[w].viewportset] = w
         /\ win[w].pc = "recv" =>
              /\ win[w].gl_window # "Taken"
              /\ cLock # w
              /\ vsLock[win[w].viewportset] # w)
  /\ [][\A w \in Windows :
          (win[w].pc \notin CycleStages /\ win'[w].pc \in CycleStages) =>
            /\ win[w].pc = "recv"
            /\ win'[w].pc = "begin_frame"
            /\ win'[w].trig = win[w].trig - 1]_vars

\* A second redraw signal has arrived while a cycle is in progress.
C11_Witness ==
  \E w \in Windows :
    /\ win[w].pc \in CycleStages
    /\ win[w].trig >= 1
    /\ win[w].hw = MaxBurst

\* C12: once the close signal of a window has fired, the next poll of its
\* task completes the task: the redraw loop does not advance, the context a
\* suspended cycle took is dropped where it is (nothing is painted, swapped
\* or acknowledged), and a completed task never moves again.
C12_CloseWinsRace ==
  [][\A w \in Windows :
       /\ (win[w].close /\ Polled(w)) =>
            \/ win'[w] = win[w] /\ sel' = sel
            \/ /\ win'[w].pc = "done"
               /\ win'[w].gl_window = win[w].gl_window
               /\ win'[w].ack = win[w].ack
               /\ win'[w].trig = win[w].trig
               /\ sel'.polling = 0
               /\ w \in sel'.ready
       /\ (win[w].close /\ win[w].pc # "done") =>
            win'[w].pc \in {win[w].pc, "done"}
       /\ win[w].pc = "done" =>
            /\ win'[w].pc = "done"
            /\ win'[w].gl_window = win[w].gl_window]_vars

\* A window closed in the middle of a cycle: its task is complete and the
\* context was never put back.
C12_Witness ==
  \E w \in Windows :
    /\ win[w].close
    /\ win[w].pc = "done"
    /\ win[w].gl_window = "Taken"


\* C13: when the task of a plain window has ended, can_quit of its content
\* has been consulted exactly once (and its egui instance destroyed only
\* after a yes).
C13_QuitConsulted ==
  \A w \in Windows :
    (win[w].plain /\ win[w].pc = "done") =>
      /\ win[w].can_quit_calls = 1
      /\ win[w].destroyed => win[w].can_quit_calls = 1


\* C14: making a NotCurrent context current and then not current again
\* gives back a NotCurrent context with the same window, surface, display
\* and options; the holder with swap_buffers and resize exists in the
\* PossiblyCurrent state only; make_current keeps a PossiblyCurrent value
\* and make_not_current keeps a NotCurrent value as they are; both leave
\* None as None.
C14_ContextRoundTrip ==
  ~cx.panicked =>
    /\ (cx.op = "round_trip" /\ cx.b.tag = "NotCurrent") => cx.x = cx.b
    /\ (cx.op = "make_current" /\ cx.b.tag = "PossiblyCurrent") => cx.x = cx.b
    /\ (cx.op = "make_current" /\ cx.b.tag = "NotCurrent") =>
         /\ cx.x.tag = "PossiblyCurrent"
         /\ cx.x.h = [cx.b.h EXCEPT !.context = "PossiblyCurrent"]
    /\ (cx.op = "make_not_current" /\ cx.b.tag = "NotCurrent") => cx.x = cx.b
    /\ (cx.op \in {"make_current", "make_not_current", "round_trip"}
          /\ cx.b.tag = "None") => cx.x = cx.b
    /\ (context(cx.x) # NoHolder) <=> (cx.x.tag = "PossiblyCurrent")
    /\ cx.op = "resize" => cx.b.tag = "PossiblyCurrent"
    /\ cx.x.tag = cx.x.h.context

\* A NotCurrent context of a resized surface has gone through the round
\* trip.
C14_Witness ==
  /\ cx.op = "round_trip"
  /\ cx.b.tag = "NotCurrent"
  /\ cx.b.h.surface.width = MaxDim
  /\ cx.x.tag = "NotCurrent"
  /\ ~cx.panicked

\* C15: resize passes max(width, 1) and max(height, 1) to the surface, so a
\* request for (0, 0) resizes it to (1, 1) and no dimension of the surface is
\* ever 0.
C15_ResizeClamped ==
  /\ (cx.x.tag # "None") =>
       /\ cx.x.h.surface.width >= 1
       /\ cx.x.h.surface.height >= 1
  /\ cx.op = "resize" =>
       /\ cx.x.h.surface.width = (IF cx.arg.width >= 1 THEN cx.arg.width ELSE 1)
       /\ cx.x.h.surface.height = (IF cx.arg.height >= 1 THEN cx.arg.height ELSE 1)
       /\ cx.x = [cx.b EXCEPT !.h.surface = cx.x.h.surface]

\* resize was called with (0, 0) on a surface of another size.
C15_Witness ==
  /\ cx.op = "resize"
  /\ cx.arg = [width |-> 0, height |-> 0]
  /\ cx.b.h.surface = [width |-> MaxDim, height |-> MaxDim]
  /\ cx.x.h.surface = [width |-> 1, height |-> 1]


\* C16: when glutin refuses to make the context of a window current, in
\* init_egui or at the start of a cycle, only the task of that window ends:
\* run goes on selecting on its aggregators.
C16_ActivationFailureContained ==
  \A w \in Windows : win[w].pc = "panicked" => pcRun = "select"

\* C17: a window one of whose swap_buffers has returned an error runs no
\* further redraw cycle.
C17_SwapErrorAborts ==
  \A w \in Windows : win[w].swap_failed => win[w].pc \notin CycleStages


\* C18: the task of every window is registered in exactly one aggregator,
\* once, from its creation until run has seen it complete: in window_close
\* exactly when its request carried plain content whose is_root() is true, in
\* non_root_windows otherwise (plain content that is not root, and viewport
\* windows).
C18_OneAggregator ==
  \A w \in Windows :
    LET inWc == {h \in DOMAIN wc.futures : wc.futures[h] = w}
        inOc == {h \in DOMAIN oc.futures : oc.futures[h] = w}
    IN /\ Cardinality(inWc) + Cardinality(inOc) <= 1
       /\ win[w].pc # "done" => Cardinality(inWc) + Cardinality(inOc) = 1
       /\ inWc # {} => (win[w].plain /\ win[w].root)
       /\ inOc # {} => ~(win[w].plain /\ win[w].root)

\* A root window registered in window_close next to a plain window that is
\* not root, registered in non_root_windows.
C18_Witness ==
  \E w1, w2 \in Windows :
    /\ win[w1].plain /\ win[w1].root
    /\ w1 \in Range(wc.futures)
    /\ win[w2].plain /\ ~win[w2].root
    /\ w2 \in Range(oc.futures)


\* C19: remove_future with a handle that is not registered changes nothing:
\* the registered operations, the accumulator and last_index are as before,
\* every later add_future returns the handle it would have returned, and
\* calling it a second time is the same as calling it once.  (With a
\* registered handle it removes that entry and nothing else.)
C19_RemoveAbsentNoop ==
  rem.op = "remove" =>
    /\ rem.index \notin DOMAIN rem.b.futures =>
         /\ rem.s = rem.b
         /\ \A x \in 1..MaxOps : add_future(rem.s, x) = add_future(rem.b, x)
         /\ remove_future(rem.s, rem.index) = rem.s
    /\ rem.index \in DOMAIN rem.b.futures =>
         /\ DOMAIN rem.s.futures = DOMAIN rem.b.futures \ {rem.index}
         /\ \A h \in DOMAIN rem.s.futures : rem.s.futures[h] = rem.b.futures[h]
         /\ rem.s.gathered_outs = rem.b.gathered_outs
         /\ rem.s.last_index = rem.b.last_index

\* remove_future was called with an absent handle on an aggregator that has
\* registered operations and gathered results.
C19_Witness ==
  /\ rem.op = "remove"
  /\ rem.index \notin DOMAIN rem.b.futures
  /\ rem.b.futures # <<>>
  /\ rem.b.gathered_outs # <<>>
  /\ rem.s = rem.b


\* C20: create tries the configurations in ascending order of num_samples
\* and passes over every one on which the surface or the context cannot be
\* created: it returns the window built on the first configuration, in that
\* order, on which both succeed, and fails only when there is none.
C20_FirstWorkingUsed ==
  cr.result # "none" =>
    LET working == {i \in 1..Len(cr.sorted) :
                      cr.sorted[i].surface_ok /\ cr.sorted[i].context_ok}
    IN /\ \A i, j \in 1..Len(cr.sorted) :
            i < j => cr.sorted[i].samples <= cr.sorted[j].samples
       /\ IF working = {}
            THEN cr.result # "ok"
            ELSE /\ cr.result = "ok"
                 /\ cr.used \in working
                 /\ \A i \in working : cr.used <= i


\* C21: a request for which no configuration of the display works, and
\* which is not the first to be processed, is dropped without a trace: the
\* turn of the loop that pops it without creating a window leaves
\* process_pending_windows in its loop (the remaining requests are still
\* processed, the windows created before go on to run).
C21_CreateFailureDropsWindow ==
  [][(/\ pcRun = "ppw"
      /\ Len(win) >= 1
      /\ Len(pending_windows') < Len(pending_windows)
      /\ Len(win') = Len(win)) => pcRun' = "ppw"]_vars


C23_SearchFromLastAssigned ==
  lastAdd.e # 0 =>
    /\ lastAdd.e = nextOp
    /\ \A h \in lastAdd.before : h < lastAdd.e


\* C24: the stream never ends: poll_next returns Pending, never Ready(None),
\* when nothing is registered or nothing is ready, and Ready(Some(result))
\* of a ready operation otherwise, also for an operation registered after a
\* poll had found the stream empty.
C24_StreamNeverEnds ==
  st.op = "poll" =>
    /\ st.poll \in {"Pending", "ReadySome"}
    /\ (st.before = {} \/ st.ready_before = {}) => st.poll = "Pending"
    /\ st.ready_before # {} =>
         /\ st.poll = "ReadySome"
         /\ st.val \in st.ready_before
         /\ st.val \notin Range(st.s.futures)

\* A poll found the stream empty after it had yielded; an operation
\* registered afterwards has completed and is yielded by the poll.
C24_Witness ==
  /\ st.op = "poll"
  /\ st.empty_at >= 1
  /\ st.poll = "ReadySome"
  /\ st.val > st.empty_at


\* C25: a poll of the All aggregator that finds it resolved (the last poll
\* returned the result list and nothing is registered) resolves again with
\* the same result list and leaves the aggregator, accumulator included, as
\* it is.
C25_AllResolvedStays ==
  [][(/\ aggKind = "All"
      /\ lastPoll.kind = "all"
      /\ lastPoll.res = "ready"
      /\ agg.futures = <<>>
      /\ lastPoll' # lastPoll) =>
        /\ lastPoll'.kind = "all"
        /\ lastPoll'.res = "ready"
        /\ lastPoll'.out = lastPoll.out
        /\ agg' = agg]_vars

\* A resolved aggregator has been polled again: the poll found nothing
\* registered and returned the results gathered before.
C25_Witness ==
  /\ aggKind = "All"
  /\ lastPoll.kind = "all"
  /\ lastPoll.res = "ready"
  /\ lastPoll.before = {}
  /\ Len(lastPoll.out) >= 2
  /\ lastPoll.out = agg.gathered_outs
  /\ ~removedAny


\* C26: a window holds the lock of its viewport-ID set for its whole redraw
\* cycle, suspended or not: from before the reconciliation reads the set
\* until after it has changed it.  The set changes only in a step of the
\* window that holds its lock, and two windows that share a set are never
\* both inside a cycle.
C26_ViewportSetLocked ==
  /\ [](\A w \in Windows :
         win[w].pc \in CycleStages =>
           /\ vsLock[win[w].viewportset] = w
           /\ \A v \in Windows \ {w} :
                win[v].viewportset = win[w].viewportset => win[v].pc \notin CycleStages)
  /\ [][\A s \in DOMAIN vset :
          (s \in DOMAIN vset' /\ vset'[s] # vset[s]) =>
            /\ vsLock[s] \in Windows
            /\ Polled(vsLock[s])
            /\ win[vsLock[s]].viewportset = s
            /\ win[vsLock[s]].pc \in {"begin_frame", "hook"}
            /\ vsLock'[s] = vsLock[s]]_vars

\* A window is suspended in its content hook, before the reconciliation,
\* while a window that shares its viewport-ID set has a redraw token waiting.
C26_Witness ==
  \E w, v \in Windows :
    /\ w # v
    /\ win[w].viewportset = win[v].viewportset
    /\ win[w].pc = "hook"
    /\ ~Polled(w)
    /\ vsLock[win[w].viewportset] = w
    /\ win[v].pc = "recv"
    /\ win[v].trig >= 1


\* C27: the context slot of a container is empty only inside one init_egui
\* or redraw: when either begins the slot holds a context (NotCurrent as
\* created, or PossiblyCurrent after init_egui), and when either has
\* completed the slot is filled again.  (The container of a completed task
\* is dropped with the task; a redraw whose lock() never returns has not
\* completed.)
C27_SlotRefilled ==
  \A w \in Windows :
    win[w].pc # "done" =>
      /\ win[w].pc = "start" => win[w].gl_window = "NotCurrent"
      /\ win[w].pc \in {"init_vb", "recv"} =>
           win[w].gl_window \in {"NotCurrent", "PossiblyCurrent"}
      /\ win[w].gl_window = "Taken" => win[w].pc \in CycleStages \cup {"blocked"}
      /\ (win[w].gl_window = "Taken" /\ win[w].pc # "blocked") => cLock = w

\* The slot of a window suspended inside its cycle is empty while the task
\* of another window, whose slot is filled, is polled.
C27_Witness ==
  \E w, v \in Windows :
    /\ w # v
    /\ win[w].pc \in CycleStages
    /\ win[w].gl_window = "Taken"
    /\ Polled(v)
    /\ win[v].pc = "recv"
    /\ win[v].gl_window = "NotCurrent"


\* The calls of one complete redraw cycle of window w, in order: the
\* viewport callback for a container that has one, the content hook for a
\* plain window, neither for a viewport window without callback.
CycleOrder(w) ==
  <<"make_current", "begin_frame">>
    \o (IF win[w].viewportcb THEN <<"viewport_cb">>
         ELSE IF win[w].plain THEN <<"redraw_hook">> ELSE <<>>)
    \o <<"end_frame", "reconcile", "gl_clear", "gl_before", "draw_main",
         "gl_after", "swap_buffers", "make_not_current">>

\* C28: the calls of a redraw cycle are made in the order activate context,
\* begin frame, content hook or viewport callback, end frame, viewport
\* reconciliation, clear, pre-draw hook, paint, post-draw hook, swap
\* buffers, each once: the calls made so far are always an initial part of
\* that order, and a completed cycle has made all of them.
C28_CycleOrder ==
  \A w \in Windows :
    /\ Len(win[w].steps) <= Len(CycleOrder(w))
    /\ win[w].steps = SubSeq(CycleOrder(w), 1, Len(win[w].steps))
    /\ (win[w].pc = "recv" /\ win[w].steps # <<>>) => win[w].steps = CycleOrder(w)
    /\ (win[w].pc \in CycleStages) =>
         /\ win[w].steps # <<>>
         /\ win[w].steps[Len(win[w].steps)] =
              (IF win[w].pc = "hook" THEN "redraw_hook" ELSE win[w].pc)

\* A plain window and a viewport window with a callback have each completed
\* a cycle.
C28_Witness ==
  \E w, v \in Windows :
    /\ win[w].plain /\ win[w].pc = "recv" /\ Len(win[w].steps) = 11
    /\ win[v].viewportcb /\ win[v].pc = "recv" /\ Len(win[v].steps) = 11


\* C29: no window runs a redraw cycle before it is initialized: a cycle
\* begins only at the head of the draw loop, which is reached only after
\* init_egui has activated the context, stored the egui instance and applied
\* the viewport builder; until then no call of a cycle has been made, however
\* many redraw tokens wait.
C29_InitBeforeCycle ==
  /\ [](\A w \in Windows :
         /\ win[w].pc \in {"start", "init_vb"} => win[w].steps = <<>>
         /\ win[w].pc = "start" => (~win[w].egui /\ ~win[w].live /\ win[w].trig = 0)
         /\ (win[w].pc \in CycleStages \/ win[w].steps # <<>>) =>
              (win[w].egui /\ win[w].live))
  /\ [][\A w \in Windows :
          (win[w].steps = <<>> /\ win'[w].steps # <<>>) =>
            /\ win[w].pc = "recv"
            /\ win[w].egui
            /\ win[w].gl_window = "PossiblyCurrent"
            /\ win[w].trig >= 1]_vars

\* A redraw token waits for a window whose init_egui still awaits the
\* viewport builder.
C29_Witness ==
  \E w \in Windows :
    /\ win[w].pc = "init_vb"
    /\ win[w].trig >= 1
    /\ win[w].egui
    /\ win[w].steps = <<>>


\* Every task of a root window has completed.
NoRootRemains ==
  /\ pcRun \notin {"new", "ppw"}
  /\ \A w \in Windows : (win[w].plain /\ win[w].root) => win[w].pc = "done"

\* C30: once the task of every root window has completed, no window that is
\* not root begins a redraw cycle or makes a further call of one, whatever
\* redraw tokens wait for it.
C30_NoCycleWithoutRoot ==
  [][NoRootRemains =>
       \A w \in Windows :
         ~(win[w].plain /\ win[w].root) =>
           /\ win'[w].pc \in CycleStages => win[w].pc \in CycleStages
           /\ win'[w].steps = win[w].steps]_vars

\* The last root window has closed and run has left its loop while a plain
\* window that is not root has a redraw token waiting.
C30_Witness ==
  /\ NoRootRemains
  /\ pcRun = "done"
  /\ \E r \in Windows : win[r].plain /\ win[r].root
  /\ \E w \in Windows :
       /\ win[w].plain /\ ~win[w].root
       /\ win[w].pc = "recv"
       /\ win[w].trig >= 1
       /\ win[w].steps # <<>>


\* C31: with several window tasks scheduled on the thread of the event loop,
\* a window inside a redraw cycle (from the activation of its context to its
\* buffer swap, suspended or running) has the context that was last made
\* current on the thread: every call of the cycle is made under it, and while
\* the cycle lasts the current context changes only when the task of that
\* window itself ends the cycle; no init_egui and no redraw of another
\* window activates a context in between.
C31_OwnContextCurrent ==
  /\ [](\A w \in Windows : win[w].pc \in CycleStages => glCurrent = w)
  /\ [][\A w \in Windows :
          /\ (win[w].pc \in CycleStages /\ win'[w].steps # win[w].steps) =>
                (Polled(w) /\ glCurrent = w)
          /\ (win[w].pc \in CycleStages /\ glCurrent' # glCurrent) =>
                (Polled(w) /\ win'[w].pc \notin CycleStages)]_vars

\* The task of an initialized window is polled while the cycle of another
\* window, which has cleared its framebuffer, is suspended before its
\* buffer swap.
C31_Witness ==
  \E w, v \in Windows :
    /\ w # v
    /\ win[w].pc \in {"gl_before", "draw_main", "gl_after"}
    /\ glCurrent = w
    /\ Polled(v)
    /\ win[v].live /\ win[v].egui


\* Window w is inside a redraw cycle; w has ended one (swap_buffers and
\* make_not_current were its last calls) and waits for the next token.
InCycle(w) == w \in Windows /\ win[w].pc \in CycleStages
CycleSwapped(w) ==
  /\ w \in Windows
  /\ win[w].pc = "recv"
  /\ win[w].steps # <<>>
  /\ win[w].steps[Len(win[w].steps)] = "make_not_current"

NoRootSpawned ==
  /\ pcRun \notin {"new", "ppw"}
  /\ \A w \in Windows : ~(win[w].plain /\ win[w].root)

C34_CycleOnlyOnRedraw ==
  /\ [](\A w \in Windows :
         /\ win[w].pc \in CycleStages => (inflight = w /\ ~win[w].close)
         /\ (win[w].close /\ inflight # w) => win[w].trig >= 1)
  /\ [][\A w \in Windows :
          /\ (win[w].pc \notin CycleStages /\ win'[w].pc \in CycleStages) =>
                /\ inflight = w
                /\ win[w].trig >= 1
                /\ win'[w].trig = win[w].trig - 1
          /\ win[w].close =>
                /\ win'[w].steps = win[w].steps
                /\ win'[w].trig = win[w].trig
                /\ win'[w].pc \in {win[w].pc, "done"}]_vars

\* The task of a window that has completed cycles before is polled at the
\* head of its draw loop after a close request: the token of the close
\* handler is the one in the trigger channel.
C34_Witness ==
  \E w \in Windows :
    /\ Polled(w)
    /\ win[w].close
    /\ win[w].pc = "recv"
    /\ win[w].trig = 1
    /\ inflight = 0
    /\ CycleSwapped(w)


C36_NoRepoll ==
  lastPoll.kind # "none" =>
    /\ lastPoll.res # "panic"
    /\ lastPoll.readyBefore = {} => lastPoll.takenBefore = {}


\* Window w is in a redraw cycle, before its reconciliation step.
BeforeReconcile(w) == w \in Windows /\ win[w].pc \in {"begin_frame", "hook"}

\* C37: whatever the shared set holds when a window comes to its
\* reconciliation step and whatever IDs the frame output names, the step
\* leaves the set equal to the IDs of the output other than ROOT when the
\* window has no viewport callback, and leaves every ID in the set when it
\* has one; the step taken changes the set to just that.
C37_ReconcileResult ==
  /\ [](\A w \in Windows : BeforeReconcile(w) =>
         \A O \in SUBSET VpIds :
           LET V == vset[win[w].viewportset]
               r == Reconcile(V, O, win[w].viewportcb, win[w].viewportid, win[w].rr)
           IN IF win[w].viewportcb
                THEN V \subseteq r.set
                ELSE r.set = O \ {ROOT})
  /\ [][\A w \in Windows :
          (BeforeReconcile(w) /\ win'[w].pc \in CycleStages \ {"begin_frame", "hook"}) =>
            LET V == vset[win[w].viewportset]
                W == vset'[win[w].viewportset]
            IN /\ \E O \in SUBSET VpIds :
                    W = Reconcile(V, O, win[w].viewportcb, win[w].viewportid,
                                  win[w].rr).set
               /\ IF win[w].viewportcb
                    THEN V \subseteq W
                    ELSE \E O \in SUBSET VpIds : W = O \ {ROOT}]_vars

\* A plain window reaches the reconciliation of a later cycle with the set
\* holding an ID from an earlier one, and a viewport window with a callback
\* that shares the set has completed a cycle.
C37_Witness ==
  \E w, v \in Windows :
    /\ win[w].plain /\ ~win[w].viewportcb
    /\ win[w].pc = "hook"
    /\ vset[win[w].viewportset] # {}
    /\ win[v].viewportcb
    /\ win[v].viewportset = win[w].viewportset
    /\ CycleSwapped(v)


\* C38: no shared viewport-ID set ever holds ROOT, whatever cycles the
\* windows sharing it have run; the IDs a reconciliation step inserts, one
\* synthesized viewport window request each, never include ROOT, and a
\* window that runs no content hook synthesizes exactly one request for
\* each ID it inserts.
C38_RootNeverInSet ==
  /\ [](\A s \in DOMAIN vset : ROOT \notin vset[s])
  /\ [](\A w \in Windows : \A O \in SUBSET VpIds :
         LET V == vset[win[w].viewportset]
             r == Reconcile(V, O, win[w].viewportcb, win[w].viewportid,
                            RedrawResponse_default)
         IN /\ ROOT \notin r.set
            /\ r.rr.new_windows = Cardinality(r.set \ V))
  /\ [][\A w \in Windows :
          LET V == vset[win[w].viewportset]
              W == vset'[win[w].viewportset]
          IN /\ ROOT \notin W \ V
             /\ (win[w].pc = "begin_frame" /\ win'[w].pc = "draw_main") =>
                  win'[w].rr.new_windows = Cardinality(W \ V)]_vars

\* The root window and a viewport window that shares its set have both
\* completed cycles, and the set holds every viewport ID other than ROOT.
C38_Witness ==
  \E w, v \in Windows :
    /\ win[w].plain /\ win[w].root
    /\ ~win[v].plain
    /\ win[v].viewportset = win[w].viewportset
    /\ vset[win[w].viewportset] = 1..MaxVpId
    /\ CycleSwapped(w)
    /\ CycleSwapped(v)


\* C39: between the operations on it the container of a live window holds
\* its context in a defined state: NotCurrent as created until init_egui,
\* PossiblyCurrent from init_egui until the first redraw cycle, NotCurrent
\* after every completed cycle, and taken out of the container only inside a
\* cycle.  Every cycle ends by putting the context back NotCurrent, and so
\* does a redraw that finds no egui instance, whichever state it found.
C39_ContextDefined ==
  /\ [](\A w \in Windows :
         /\ win[w].pc = "start" => win[w].gl_window = "NotCurrent"
         /\ win[w].pc = "init_vb" => win[w].gl_window = "PossiblyCurrent"
         /\ (win[w].pc = "recv" /\ win[w].steps = <<>>) =>
               win[w].gl_window = "PossiblyCurrent"
         /\ (win[w].pc = "recv" /\ win[w].steps # <<>>) =>
               (CycleSwapped(w) /\ win[w].gl_window = "NotCurrent")
         /\ win[w].gl_window = "Taken" <=> InCycle(w))
  /\ [](\A x \in {"PossiblyCurrent", "NotCurrent"} :
         make_not_current(make_current(x)) = "NotCurrent")
  /\ [][\A w \in Windows :
          /\ (win[w].pc = "start" /\ win'[w].pc # "start") =>
                win'[w].gl_window = "PossiblyCurrent"
          /\ (InCycle(w) /\ win'[w].pc = "recv") =>
                win'[w].gl_window = "NotCurrent"]_vars

\* One window is initialized and waits for its first redraw token, its
\* context left current; another has completed a cycle and holds its context
\* not current.
C39_Witness ==
  \E w, v \in Windows :
    /\ win[w].pc = "recv" /\ win[w].steps = <<>>
    /\ win[w].gl_window = "PossiblyCurrent"
    /\ CycleSwapped(v)
    /\ win[v].gl_window = "NotCurrent"

====
